---------------------------- MODULE Spec2Model ----------------------------
(***************************************************************************)
(* Witness management and signal overrides of dl-solarity/zkit.            *)
(*                                                                         *)
(* The module models                                                       *)
(*   - the witness utilities (symbol-table reader, index resolver,         *)
(*     override engine, witness codec) as operators, and                   *)
(*   - the CircuitZKit class that keeps an original and a modified         *)
(*     witness file in the temporary directory (calculateWitness,          *)
(*     modifyWitness, resetWitness, getWitnessFilePath, generateProof)     *)
(*     as a state machine over the files of that directory.                *)
(*                                                                         *)
(* A path is the pair <<circuitName, suffix>>: path.join(getTmpDir(),      *)
(* `${circuitName}${suffix}`).  A .sym file is the sequence of its lines,  *)
(* a line the sequence of its comma-separated fields; a field that the     *)
(* code converts is held with its text and with what BigInt() and Number() *)
(* make of the text.  An error is the sequence <<message template,         *)
(* inserted values...>>.  JavaScript arrays are 0-based, sequences here    *)
(* are 1-based: witness[i] of the code is witness[i + 1] here.             *)
(***************************************************************************)
EXTENDS Integers, Sequences, FiniteSets, TLC

VARIABLES
    cfg,    \* per CircuitZKit instance: circuit name and compiled artifacts
    fs,     \* the temporary directory: path -> file content, existing files only
    heap,   \* JavaScript arrays held by a caller of the utilities: ref -> vector
    ret,    \* the last call that settled: operation, arguments and outcome
    pending \* per task of the caller: the call it has made that has not settled

vars == <<cfg, fs, heap, ret, pending>>

---------------------------------------------------------------------------
(* Bounds of the model *)

MaxOverrides == 2

(* The longest prime, in bits, whose header is written *)
MaxBits == 260

(* The number of revisions of the circuit source that are compiled *)
MaxSources == 3

(* Inputs of the model *)

SignalNames == {"main.out", "main.a", "main.c", "main.isEqual"}

(* The names every JavaScript object inherits from Object.prototype *)
ObjectPrototype ==
    {"constructor", "toString", "toLocaleString", "valueOf", "hasOwnProperty",
     "isPrototypeOf", "propertyIsEnumerable", "__proto__", "__defineGetter__",
     "__defineSetter__", "__lookupGetter__", "__lookupSetter__"}

(* The names an override set is made of: signal names, and one name that is *)
(* no signal of any circuit and a member of every object                     *)
OverrideNames == SignalNames \cup {"constructor"}

(* The value an override gives each signal: 300 is not below the prime 251 *)
OverrideValue(signal) ==
    CASE signal = "main.out" -> 150
      [] signal = "main.a" -> 300
      [] signal = "main.c" -> 10
      [] signal = "constructor" -> 5
      [] OTHER -> 20

InputSets == {<<20, 10>>, <<20, 30>>}

Primes == {251, 65521}

CircuitNames == {"Multiplier"}

AllArtifacts == {"wasm", "sym", "zkey", "vkey"}

ArtifactSets ==
    {AllArtifacts, AllArtifacts \ {"wasm"}, AllArtifacts \ {"sym"}, AllArtifacts \ {"zkey"}}

(* A JavaScript number: an integer n, a number strictly between n and n + 1, *)
(* NaN, or minus infinity                                                    *)
Num(n) == [kind |-> "integer", n |-> n]

Between(n) == [kind |-> "fraction", n |-> n]

NaN == [kind |-> "NaN", n |-> 0]

NegativeInfinity == [kind |-> "-Infinity", n |-> 0]

(* A field of a line of four fields: its text, whether BigInt(text) is an    *)
(* integer and which, and the number Number(text) is.  Literal is the text   *)
(* of an integer ("12", "-1", ""), NotLiteral a text that is no number       *)
(* ("# a"), Numeric the text of a number that is no integer literal ("-1.5"  *)
(* with Between(-2), "1e0" with Num(1), "-Infinity")                          *)
Literal(text, value) ==
    [text |-> text, isInteger |-> TRUE, value |-> value, number |-> Num(value)]

NotLiteral(text) == [text |-> text, isInteger |-> FALSE, value |-> 0, number |-> NaN]

Numeric(text, number) ==
    [text |-> text, isInteger |-> FALSE, value |-> 0, number |-> number]

(* The line `${id},${witnessIndex},${componentId},${signalName}` *)
SymLine(id, witnessIndex, componentId, signalName) ==
    <<Literal(ToString(id), id), Literal(ToString(witnessIndex), witnessIndex),
      Literal(ToString(componentId), componentId), signalName>>

(* Multiplier.sym as circom writes it: out, a, b at witness positions 1, 2, 3 *)
SymMultiplier ==
    << SymLine(1, 1, 0, "main.out"), SymLine(2, 2, 0, "main.a"), SymLine(3, 3, 0, "main.b") >>

(* The same table with a signal that was optimized away (witness index -1), *)
(* a line that is not four fields long, and a trailing empty line.          *)
SymOptimized ==
    << SymLine(1, 1, 0, "main.out"), SymLine(4, -1, 0, "main.isEqual"), <<"# comment">>,
       SymLine(2, 2, 0, "main.a"), SymLine(3, 3, 0, "main.b"), <<"">> >>

SymFiles == {SymMultiplier, SymOptimized}

(* Override sets: Object.entries order, keys distinct *)
OverrideSeqs ==
    {[i \in DOMAIN names |-> <<names[i], OverrideValue(names[i])>>] :
        names \in {n \in UNION {[1..len -> OverrideNames] : len \in 0..MaxOverrides} :
                      \A i, j \in DOMAIN n : i # j => n[i] # n[j]}}

OverrideKeys(overrides) == [i \in DOMAIN overrides |-> overrides[i][1]]

---------------------------------------------------------------------------
(* Sequence helpers *)

RECURSIVE SelectNames(_, _)
SelectNames(names, keep) ==
    IF names = <<>> THEN <<>>
    ELSE IF Head(names) \in keep
         THEN <<Head(names)>> \o SelectNames(Tail(names), keep)
         ELSE SelectNames(Tail(names), keep)

Range(s) == {s[i] : i \in DOMAIN s}

---------------------------------------------------------------------------
(* Witness codec *)

RECURSIVE BitLength(_)
BitLength(n) == IF n <= 0 THEN 0 ELSE 1 + BitLength(n \div 2)

(* binFileUtils.writeBigInt(fd, v, n8): v as n8 little-endian bytes *)
RECURSIVE writeBigInt(_, _)
writeBigInt(v, n8) ==
    IF n8 = 0 THEN <<>> ELSE <<v % 256>> \o writeBigInt(v \div 256, n8 - 1)

(* binFileUtils.readBigInt(fd, n8) *)
RECURSIVE readBigInt(_)
readBigInt(bytes) ==
    IF bytes = <<>> THEN 0 ELSE Head(bytes) + 256 * readBigInt(Tail(bytes))

(* An element width of one byte whatever the prime *)
ElementWidthByte(prime) == 1

(* A width that counts one word more when the bit length is a multiple of 64 *)
n8OfBitLengthFloor(bitLength) == (bitLength \div 64 + 1) * 8

(* n8 = (Math.floor((Scalar.bitLength(prime) - 1) / 64) + 1) * 8, of the bit *)
(* length of the prime                                                      *)
n8OfBitLength(bitLength) == ((bitLength - 1) \div 64 + 1) * 8

(* The same n8, of the prime *)
ElementWidth(prime) == n8OfBitLength(BitLength(prime))

(* The file writeWitnessFile(witnessPath, witness, prime) leaves at witnessPath *)
(* A writer that reduces every element modulo the prime *)
writeWitnessFileReduced(witness, prime) ==
    LET n8 == ElementWidth(prime)
    IN  [type |-> "wtns", version |-> 2, nSections |-> 2,
         n8 |-> n8,
         q |-> writeBigInt(prime, n8),
         nWitness |-> Len(witness),
         data |-> [i \in 1..Len(witness) |-> writeBigInt(witness[i] % prime, n8)]]

writeWitnessFile(witness, prime) ==
    LET n8 == ElementWidth(prime)
    IN  [type |-> "wtns", version |-> 2, nSections |-> 2,
         n8 |-> n8,
         q |-> writeBigInt(prime, n8),
         nWitness |-> Len(witness),
         data |-> [i \in 1..Len(witness) |-> writeBigInt(witness[i], n8)]]

getWitnessPrime(file) == readBigInt(file.q)

(* snarkjs.wtns.exportJson(wtnsFile) *)
exportJson(file) == [i \in 1..file.nWitness |-> readBigInt(file.data[i])]

(* snarkjs.wtns.calculate(inputs, wasmFile, wtnsFile) for the Multiplier      *)
(* circuit over the field of the given prime: the vector [1, out, a, b]       *)
WitnessOf(inputs, prime) ==
    <<1, (inputs[1] * inputs[2]) % prime, inputs[1] % prime, inputs[2] % prime>>

wtnsCalculate(inputs, prime) == writeWitnessFile(WitnessOf(inputs, prime), prime)

---------------------------------------------------------------------------
(* Symbol table *)

(* n < 0 in JavaScript: false of NaN *)
IsNegative(x) == x.kind = "-Infinity" \/ (x.kind \in {"integer", "fraction"} /\ x.n < 0)

(* The number is an index of an array: witness[x] names an element *)
IsArrayIndex(x) == x.kind = "integer" /\ x.n >= 0

(* Number(field) *)
Number(field) == field.number

(* BigInt(field): the integer, or the SyntaxError it throws *)
BigInt(field) ==
    [ok |-> field.isInteger, value |-> field.value,
     error |-> <<"Cannot convert ", field.text, " to a BigInt">>]

(* object[name] = value on an object literal: the object has the property   *)
(* afterwards, unless the name is "__proto__", whose setter ignores a value  *)
(* that is no object                                                         *)
SetProperty(object, name, value) ==
    IF name = "__proto__" THEN object
    ELSE [n \in DOMAIN object \cup {name} |-> IF n = name THEN value ELSE object[n]]

(* loadSignalToIndexMap: lines that are not four fields long or whose witness *)
(* index is negative are skipped; a later line of the same name wins          *)
RECURSIVE loadSignalToIndexMap(_)
loadSignalToIndexMap(lines) ==
    IF lines = <<>> THEN <<>>
    ELSE LET signal == lines[Len(lines)]
             rest == loadSignalToIndexMap(SubSeq(lines, 1, Len(lines) - 1))
         IN  IF Len(signal) # 4 \/ IsNegative(Number(signal[2]))
             THEN rest
             ELSE SetProperty(rest, signal[4], Number(signal[2]))

(* The SignalInfo object iterateSymFile builds of a line of four fields *)
SignalInfo(signalInfo) ==
    [id |-> BigInt(signalInfo[1]).value, witnessIndex |-> BigInt(signalInfo[2]).value,
     componentId |-> BigInt(signalInfo[3]).value, signalName |-> signalInfo[4]]

(* The fields of a line of four, in the order BigInt() is called on them, that *)
(* are no integer literal                                                      *)
NotConvertible(signalInfo) == {i \in 1..3 : ~BigInt(signalInfo[i]).ok}

(* A reader that stops at the first line that has not four fields *)
iterateSymFileUntilMalformed(lines) ==
    LET malformed == {j \in DOMAIN lines : Len(lines[j]) # 4}
        n == IF malformed = {} THEN Len(lines)
             ELSE (CHOOSE j \in malformed : \A i \in malformed : j <= i) - 1
    IN  [ok |-> TRUE, error |-> <<>>, entries |-> [j \in 1..n |-> SignalInfo(lines[j])]]

(* iterateSymFile: one SignalInfo per line of exactly four fields, in file    *)
(* order, passed to the callback (entries).  BigInt() throws at the first     *)
(* line of four fields one of whose first three is no integer literal: the    *)
(* lines before it have been passed, no line after it is read                 *)
RECURSIVE iterateSymFile(_)
iterateSymFile(lines) ==
    IF lines = <<>> THEN [ok |-> TRUE, error |-> <<>>, entries |-> <<>>]
    ELSE LET signalInfo == Head(lines)
             rest == iterateSymFile(Tail(lines))
         IN  IF Len(signalInfo) # 4
             THEN rest
             ELSE IF NotConvertible(signalInfo) # {}
             THEN LET i == CHOOSE i \in NotConvertible(signalInfo) :
                               \A j \in NotConvertible(signalInfo) : i <= j
                  IN  [ok |-> FALSE, error |-> BigInt(signalInfo[i]).error, entries |-> <<>>]
             ELSE [rest EXCEPT !.entries = <<SignalInfo(signalInfo)>> \o @]

(* iterateSymFile of the revision that filters in the reader: the split line *)
(* itself, for each line of four fields whose witness index is not negative  *)
RECURSIVE iterateSymFileValid(_)
iterateSymFileValid(lines) ==
    IF lines = <<>> THEN <<>>
    ELSE LET signalInfo == Head(lines)
         IN  IF Len(signalInfo) # 4 \/ IsNegative(Number(signalInfo[2]))
             THEN iterateSymFileValid(Tail(lines))
             ELSE <<signalInfo>> \o iterateSymFileValid(Tail(lines))

(* A guard that lets a signal without a witness slot through *)
HasAnyWitnessIndex(signalInfo) == TRUE

(* The guard of checkWitnessOverrides' callback: the signal has a witness slot *)
HasWitnessIndex(signalInfo) == signalInfo.witnessIndex >= 0

(* A witness index as the map of checkWitnessOverrides holds it: a bigint *)
BigIntValue(n) == [kind |-> "bigint", n |-> n]

(* signalToWitnessIndex as the callback of checkWitnessOverrides builds it *)
RECURSIVE signalToWitnessIndex(_)
signalToWitnessIndex(signals) ==
    IF signals = <<>> THEN <<>>
    ELSE LET signalInfo == signals[Len(signals)]
             rest == signalToWitnessIndex(SubSeq(signals, 1, Len(signals) - 1))
         IN  IF HasWitnessIndex(signalInfo)
             THEN SetProperty(rest, signalInfo.signalName, BigIntValue(signalInfo.witnessIndex))
             ELSE rest

(* missingSignals: new Set(Object.keys(overrides)) after the deletes the      *)
(* callback made for the signals it was passed, in insertion order            *)
missingSignals(signals, overrides) ==
    LET found == {x.signalName : x \in {x \in Range(signals) : HasWitnessIndex(x)}}
        keys == OverrideKeys(overrides)
    IN  SelectNames(keys, Range(keys) \ found)

(* `Signals not found in .sym file: ${Array.from(missingSignals).join(", ")}` *)
SignalsNotFoundError(missing) == <<"Signals not found in .sym file: ">> \o missing

(* checkWitnessOverrides(symFilePath, overrides): the error of iterateSymFile, *)
(* the error that lists the missing names, or the index map                    *)
checkWitnessOverrides(lines, overrides) ==
    LET read == iterateSymFile(lines)
        missing == missingSignals(read.entries, overrides)
    IN  IF ~read.ok
        THEN [ok |-> FALSE, error |-> read.error, indexes |-> <<>>]
        ELSE IF Len(missing) > 0
        THEN [ok |-> FALSE, error |-> SignalsNotFoundError(missing), indexes |-> <<>>]
        ELSE [ok |-> TRUE, error |-> <<>>, indexes |-> signalToWitnessIndex(read.entries)]

(* An empty slot of a JavaScript array, which reads as undefined *)
Hole == "<hole>"

(* undefined, and a member of Object.prototype (a function, or the prototype *)
(* itself)                                                                    *)
Undefined == [kind |-> "undefined", n |-> 0]

Inherited == [kind |-> "object", n |-> 0]

(* object[name] of an object literal: its own property, the member of        *)
(* Object.prototype of that name, or undefined                                *)
GetProperty(object, name) ==
    IF name \in DOMAIN object THEN object[name]
    ELSE IF name \in ObjectPrototype THEN Inherited
    ELSE Undefined

(* Number(value) of a value that is no string *)
NumberOf(value) ==
    CASE value.kind = "bigint" -> Num(value.n)
      [] value.kind \in {"undefined", "object"} -> NaN
      [] OTHER -> value

(* A store that takes the witness index for the position in the sequence *)
SetElementShifted(witness, index, value) ==
    IF index.kind = "integer" /\ index.n \in DOMAIN witness
    THEN [witness EXCEPT ![index.n] = value]
    ELSE witness

(* witness[index] = value.  An index that is no non-negative integer (NaN, a  *)
(* fraction, a negative number, undefined, a function) names a property of    *)
(* the array object and sets no element; an index at or past the length      *)
(* grows the array to index + 1 elements, the slots in between empty         *)
SetElement(witness, index, value) ==
    IF ~IsArrayIndex(index)
    THEN witness
    ELSE IF index.n < Len(witness)
    THEN [witness EXCEPT ![index.n + 1] = value]
    ELSE [i \in 1..(index.n + 1) |->
             IF i <= Len(witness) THEN witness[i]
             ELSE IF i = index.n + 1 THEN value ELSE Hole]

(* A loop that stores the last override only *)
ApplyLastOverride(witness, signalIndexes, overrides) ==
    IF overrides = <<>> THEN witness
    ELSE SetElement(witness,
                    NumberOf(GetProperty(signalIndexes, overrides[Len(overrides)][1])),
                    overrides[Len(overrides)][2])

(* The loop of modifyWitnessArray over Object.entries(overrides):            *)
(* index = Number(signalIndexes[signal]); witness[index] = value              *)
RECURSIVE ApplyOverrides(_, _, _)
ApplyOverrides(witness, signalIndexes, overrides) ==
    IF overrides = <<>> THEN witness
    ELSE ApplyOverrides(
             SetElement(witness, NumberOf(GetProperty(signalIndexes, Head(overrides)[1])),
                        Head(overrides)[2]),
             signalIndexes, Tail(overrides))

(* An override engine that leaves its argument alone and returns a new array *)
modifyWitnessArrayCopy(h, ref, signalIndexes, overrides) ==
    [heap |-> [r \in DOMAIN h \cup {ref + 1} |->
                  IF r = ref + 1 THEN ApplyOverrides(h[ref], signalIndexes, overrides) ELSE h[r]],
     ref |-> ref + 1]

(* modifyWitnessArray(witness, signalIndexes, overrides) on the array `ref` of *)
(* the heap h: the heap after the call and the reference it returns            *)
modifyWitnessArray(h, ref, signalIndexes, overrides) ==
    [heap |-> [h EXCEPT ![ref] = ApplyOverrides(h[ref], signalIndexes, overrides)],
     ref |-> ref]

(* signalIndexes[signal] === undefined, of an object literal: the object has  *)
(* no such property of its own and inherits none                               *)
IsUndefined(signalIndexes, signal) == GetProperty(signalIndexes, signal) = Undefined

(* The earlier modifyWitnessArray(witness, symFile, overrides), and the loop   *)
(* of modifyWitness: each name is resolved as the loop goes, and the loop      *)
(* throws at the first one for which the index map gives undefined, the        *)
(* overrides before it already stored.  For an inherited name the map gives a  *)
(* function: witness[index] = value sets no element                            *)
RECURSIVE modifyWitnessArraySym(_, _, _)
modifyWitnessArraySym(witness, signalIndexes, overrides) ==
    IF overrides = <<>> THEN [ok |-> TRUE, error |-> <<>>, witness |-> witness]
    ELSE LET signal == Head(overrides)[1]
             index == GetProperty(signalIndexes, signal)
         IN  IF IsUndefined(signalIndexes, signal)
             THEN [ok |-> FALSE,
                   error |-> <<"Signal ", signal, " not found in .sym file">>,
                   witness |-> witness]
             ELSE modifyWitnessArraySym(SetElement(witness, index, Head(overrides)[2]),
                                        signalIndexes, Tail(overrides))

---------------------------------------------------------------------------
(* Files of the temporary directory *)

NoFiles == [p \in {} |-> 0]

Exists(f, p) == p \in DOMAIN f

WriteFile(f, p, content) == [q \in DOMAIN f \cup {p} |-> IF q = p THEN content ELSE f[q]]

RemoveFile(f, p) == [q \in DOMAIN f \ {p} |-> f[q]]

(* Files that are not witness files: another container type, a later version *)
ForeignFiles ==
    {[type |-> "r1cs", version |-> 1], [type |-> "wtns", version |-> 3]}

(* The file of no bytes that createBinFile leaves at a path until the writer *)
(* closes it                                                                 *)
EmptyFile ==
    [type |-> "", version |-> 0, nSections |-> 0, n8 |-> 0, q |-> <<>>,
     nWitness |-> 0, data |-> <<>>]

(* binFileUtils.readBinFile(path, "wtns", 2): the error it throws, if any *)
readBinFile(f, p) ==
    IF ~Exists(f, p)
    THEN [ok |-> FALSE, error |-> <<"ENOENT: no such file or directory">> \o p]
    ELSE IF f[p].type = ""
    THEN [ok |-> FALSE, error |-> <<"Reading out of bounds">>]
    ELSE IF f[p].type # "wtns"
    THEN [ok |-> FALSE, error |-> <<"Invalid File format">> \o p]
    ELSE IF f[p].version > 2
    THEN [ok |-> FALSE, error |-> <<"Version not supported">>]
    ELSE [ok |-> TRUE, error |-> <<>>]

(* path.join(getTmpDir(), `${circuitName}.wtns`) *)
getTemporaryWitnessPath(k) == <<k.circuitName, ".wtns">>

(* path.join(getTmpDir(), `${circuitName}_modified.wtns`) *)
getModifiedWitnessPath(k) == <<k.circuitName, "_modified.wtns">>

(* mustGetArtifactsFilePath(fileType) throws unless the artifact exists *)
HasArtifact(k, fileType) == fileType \in k.artifacts

ExpectedFileError(fileType) == <<"Expected the file to exist", fileType>>

---------------------------------------------------------------------------
(* The record of a call *)

NoProof == [publicSignals |-> <<>>, valid |-> FALSE]

(* What a call record keeps of the call that had settled last when it was made *)
NoLast == [op |-> "none", ok |-> TRUE, alone |-> TRUE, witness |-> <<>>]

NoCall ==
    [op |-> "none", inst |-> 0, pre |-> "NoWitness", before |-> NoFiles, last |-> NoLast,
     alone |-> TRUE,
     ok |-> TRUE, error |-> <<>>,
     hasInputs |-> FALSE, inputs |-> <<>>, hasOverrides |-> FALSE, overrides |-> <<>>,
     witness |-> <<>>, path |-> <<>>, proof |-> NoProof, wrote |-> <<>>,
     ref |-> 0, argRef |-> 0, argWitness |-> <<>>, indexes |-> <<>>, prime |-> 0,
     entries |-> <<>>, bitLength |-> 0, n8 |-> 0, options |-> {}, source |-> 0,
     constraints |-> 0]

(* Which witness files of the circuit exist *)
WitnessState(f, k) ==
    CASE Exists(f, getTemporaryWitnessPath(k)) /\ Exists(f, getModifiedWitnessPath(k)) -> "Modified"
      [] Exists(f, getTemporaryWitnessPath(k)) /\ ~Exists(f, getModifiedWitnessPath(k)) -> "Original"
      [] ~Exists(f, getTemporaryWitnessPath(k)) /\ Exists(f, getModifiedWitnessPath(k)) -> "ModifiedOnly"
      [] OTHER -> "NoWitness"

(* A call of `op` on instance c, made in the current state *)
Call(op, c) == [NoCall EXCEPT !.op = op, !.inst = c, !.pre = WitnessState(fs, cfg[c])]

Thrown(call, error) == [call EXCEPT !.ok = FALSE, !.error = error]

(* A call that has been made and has not settled: the await it is suspended  *)
(* at (pc), what its caller does with its result (then), its record, its      *)
(* local variables, and whether the file it has created and not yet closed    *)
(* is still at its path (linked)                                              *)
Idle ==
    [pc |-> "idle", then |-> "", call |-> NoCall, witness |-> <<>>, prime |-> 0,
     linked |-> FALSE]

Suspended(pc, then, call) == [Idle EXCEPT !.pc = pc, !.then = then, !.call = call]

(* The promise of the call is fulfilled or rejected *)
Settled(call) == [Idle EXCEPT !.pc = "settled", !.call = call]

(* The path of the file a suspended call has created and not yet closed *)
OpenPath(k, p) ==
    CASE ~p.linked -> <<>>
      [] p.pc = "writeWitnessFile:close" -> getModifiedWitnessPath(k)
      [] p.pc = "fd.close" -> p.call.path
      [] OTHER -> getTemporaryWitnessPath(k)

(* snarkjs.groth16.prove on a witness file of the Multiplier circuit: the      *)
(* public signal is out (witness position 1); the proof verifies iff the        *)
(* witness satisfies out = a * b in the field                                   *)
implementerGenerateProof(file) ==
    LET w == exportJson(file)
        prime == getWitnessPrime(file)
    IN  [publicSignals |-> <<w[2]>>,
         valid |-> w[1] = 1 /\ w[2] = (w[3] * w[4]) % prime]

---------------------------------------------------------------------------
(* CircuitZKit with an original and a modified witness file.  Its methods are *)
(* async: a call runs to its first await when it is made and from one await  *)
(* to the next each time it is resumed.  Each step operator gives the files  *)
(* after the step and the call as it is suspended or settled; a file write   *)
(* is two steps, the creation of the file and its closing with the content.  *)

(* A calculation that writes no witness file *)
calculateWitnessNoFile(f, k, call, inputs, then) ==
    [fs |-> f,
     p |-> Suspended("wtns.exportJson", then,
                     [call EXCEPT !.hasInputs = TRUE, !.inputs = inputs])]

(* calculateWitness(inputs) up to its first await: the paths are built and   *)
(* snarkjs.wtns.calculate is called                                           *)
calculateWitnessCalled(f, k, call, inputs, then) ==
    LET c0 == [call EXCEPT !.hasInputs = TRUE, !.inputs = inputs]
    IN  IF ~HasArtifact(k, "wasm")
        THEN [fs |-> f, p |-> Settled(Thrown(c0, ExpectedFileError("wasm")))]
        ELSE [fs |-> f, p |-> Suspended("wtns.calculate", then, c0)]

(* snarkjs.wtns.calculate creates the witness file, or truncates it *)
wtnsCalculateCreate(f, k, p) ==
    [fs |-> WriteFile(f, getTemporaryWitnessPath(k), EmptyFile),
     p |-> [p EXCEPT !.pc = "wtns.calculate:close", !.linked = TRUE]]

(* snarkjs.wtns.calculate writes the witness and closes the file.  A file    *)
(* that was removed after it was created is no longer at its path: what is   *)
(* written to it is lost                                                      *)
wtnsCalculateClose(f, k, p) ==
    [fs |-> IF p.linked
            THEN WriteFile(f, getTemporaryWitnessPath(k), wtnsCalculate(p.call.inputs, k.prime))
            ELSE f,
     p |-> [p EXCEPT !.pc = "wtns.exportJson", !.linked = FALSE]]

(* getWitnessFilePath has its witness file: it returns the path, and         *)
(* generateProof, which awaited it, calls the proving backend with it        *)
WitnessFileFound(call, witnessFile, then) ==
    IF then = "path"
    THEN Settled([call EXCEPT !.path = witnessFile])
    ELSE Suspended("generateProof", then, [call EXCEPT !.path = witnessFile])

(* snarkjs.wtns.exportJson reads the witness file as it is by now; the       *)
(* vector is returned by calculateWitness, or getWitnessFilePath, which      *)
(* awaited the calculation, returns the path of the file                     *)
calculateWitnessExport(f, k, p) ==
    LET wtnsFile == getTemporaryWitnessPath(k)
        r == readBinFile(f, wtnsFile)
    IN  IF ~r.ok
        THEN [fs |-> f, p |-> Settled(Thrown(p.call, r.error))]
        ELSE IF p.then = "witness"
        THEN [fs |-> f, p |-> Settled([p.call EXCEPT !.witness = exportJson(f[wtnsFile])])]
        ELSE [fs |-> f, p |-> WitnessFileFound(p.call, wtnsFile, p.then)]

(* modifyWitness(overrides) up to its first await: the paths are built and   *)
(* snarkjs.wtns.exportJson is called on the original file                     *)
modifyWitnessCalled(f, k, call, overrides) ==
    [fs |-> f,
     p |-> Suspended("modify:exportJson", "",
                     [call EXCEPT !.hasOverrides = TRUE, !.overrides = overrides])]

(* A modifyWitness that loads the .sym file before it reads the witness *)
modifyWitnessExportSymFirst(f, k, p) ==
    LET wtnsFile == getTemporaryWitnessPath(k)
        r == readBinFile(f, wtnsFile)
    IN  IF ~HasArtifact(k, "sym")
        THEN [fs |-> f, p |-> Settled(Thrown(p.call, ExpectedFileError("sym")))]
        ELSE IF ~r.ok
        THEN [fs |-> f, p |-> Settled(Thrown(p.call, r.error))]
        ELSE [fs |-> f,
              p |-> [p EXCEPT !.pc = "loadSignalToIndexMap",
                              !.witness = exportJson(f[wtnsFile])]]

(* A modifyWitness that applies the overrides to the current witness, the   *)
(* modified one when there is one                                            *)
modifyWitnessExportCurrent(f, k, p) ==
    LET wtnsFile == IF Exists(f, getModifiedWitnessPath(k))
                    THEN getModifiedWitnessPath(k)
                    ELSE getTemporaryWitnessPath(k)
        r == readBinFile(f, wtnsFile)
    IN  IF ~r.ok
        THEN [fs |-> f, p |-> Settled(Thrown(p.call, r.error))]
        ELSE IF ~HasArtifact(k, "sym")
        THEN [fs |-> f, p |-> Settled(Thrown(p.call, ExpectedFileError("sym")))]
        ELSE [fs |-> f,
              p |-> [p EXCEPT !.pc = "loadSignalToIndexMap",
                              !.witness = exportJson(f[wtnsFile])]]

(* snarkjs.wtns.exportJson has read the original file as it is by now;       *)
(* loadSignalToIndexMap is called, finds the .sym file and reads it          *)
modifyWitnessExport(f, k, p) ==
    LET wtnsFile == getTemporaryWitnessPath(k)
        r == readBinFile(f, wtnsFile)
    IN  IF ~r.ok
        THEN [fs |-> f, p |-> Settled(Thrown(p.call, r.error))]
        ELSE IF ~HasArtifact(k, "sym")
        THEN [fs |-> f, p |-> Settled(Thrown(p.call, ExpectedFileError("sym")))]
        ELSE [fs |-> f,
              p |-> [p EXCEPT !.pc = "loadSignalToIndexMap",
                              !.witness = exportJson(f[wtnsFile])]]

(* The .sym file is read: the table is built and the loop stores the        *)
(* overrides in the vector read, up to the first name the table does not     *)
(* resolve; getWitnessPrime is called                                        *)
modifyWitnessLoad(f, k, p) ==
    LET m == modifyWitnessArraySym(p.witness, loadSignalToIndexMap(k.sym), p.call.overrides)
    IN  IF ~m.ok
        THEN [fs |-> f, p |-> Settled(Thrown(p.call, m.error))]
        ELSE [fs |-> f, p |-> [p EXCEPT !.pc = "getWitnessPrime", !.witness = m.witness]]

(* getWitnessPrime reads the prime of the original file as it is by now *)
modifyWitnessPrime(f, k, p) ==
    LET wtnsFile == getTemporaryWitnessPath(k)
        r == readBinFile(f, wtnsFile)
    IN  IF ~r.ok
        THEN [fs |-> f, p |-> Settled(Thrown(p.call, r.error))]
        ELSE [fs |-> f,
              p |-> [p EXCEPT !.pc = "writeWitnessFile",
                              !.prime = getWitnessPrime(f[wtnsFile])]]

(* writeWitnessFile creates the modified file, or truncates it *)
modifyWitnessCreate(f, k, p) ==
    [fs |-> WriteFile(f, getModifiedWitnessPath(k), EmptyFile),
     p |-> [p EXCEPT !.pc = "writeWitnessFile:close", !.linked = TRUE]]

(* Persistence that writes the overridden vector over the original file *)
PersistOverOriginal(f, k, witness, prime) ==
    [fs |-> WriteFile(f, getTemporaryWitnessPath(k), writeWitnessFile(witness, prime)),
     wrote |-> <<<<getTemporaryWitnessPath(k), witness>>>>]

(* Persistence that writes nothing *)
PersistNothing(f, k, witness, prime) == [fs |-> f, wrote |-> <<>>]

(* Persistence that keeps every overridden vector under a further name too *)
PersistAnotherVariant(f, k, witness, prime) ==
    LET target == <<k.circuitName, "_modified_2.wtns">>
    IN  [fs |-> WriteFile(WriteFile(f, getModifiedWitnessPath(k), writeWitnessFile(witness, prime)),
                          target, writeWitnessFile(witness, prime)),
         wrote |-> <<<<getModifiedWitnessPath(k), witness>>, <<target, witness>>>>]

(* Persistence that writes the modified file with one prime for every circuit *)
PersistWithFixedPrime(f, k, witness, prime) ==
    [fs |-> WriteFile(f, getModifiedWitnessPath(k), writeWitnessFile(witness, 65521)),
     wrote |-> <<<<getModifiedWitnessPath(k), witness>>>>]

(* writeWitnessFile writes the overridden vector with the prime that was     *)
(* read and closes the modified file                                          *)
PersistModified(f, k, witness, prime) ==
    [fs |-> WriteFile(f, getModifiedWitnessPath(k), writeWitnessFile(witness, prime)),
     wrote |-> <<<<getModifiedWitnessPath(k), witness>>>>]

(* The end of modifyWitness.  A file that was removed after it was created   *)
(* is no longer at its path: what is written to it is lost                   *)
modifyWitnessWritten(f, k, p) ==
    LET w == IF p.linked
             THEN PersistModified(f, k, p.witness, p.prime)
             ELSE [fs |-> f, wrote |-> <<<<getModifiedWitnessPath(k), p.witness>>>>]
    IN  [fs |-> w.fs,
         p |-> Settled([p.call EXCEPT !.witness = p.witness, !.wrote = w.wrote])]

(* A getWitnessFilePath that calculates the witness anew whenever inputs are *)
(* supplied                                                                   *)
getWitnessFilePathRecalculating(f, k, call, hasInputs, inputs, then) ==
    LET modifiedWitness == getModifiedWitnessPath(k)
        originalWitness == getTemporaryWitnessPath(k)
        c0 == [call EXCEPT !.hasInputs = hasInputs, !.inputs = inputs]
    IN  IF hasInputs
        THEN calculateWitnessCalled(f, k, c0, inputs, then)
        ELSE IF Exists(f, modifiedWitness)
        THEN [fs |-> f, p |-> WitnessFileFound(c0, modifiedWitness, then)]
        ELSE IF Exists(f, originalWitness)
        THEN [fs |-> f, p |-> WitnessFileFound(c0, originalWitness, then)]
        ELSE [fs |-> f,
              p |-> Settled(Thrown(c0, <<"Witness file not found. Inputs are required to calculate witness.">>))]

(* A query that answers with the original path whether or not the file exists *)
getWitnessFilePathUnchecked(f, k, call, hasInputs, inputs, then) ==
    LET c0 == [call EXCEPT !.hasInputs = hasInputs, !.inputs = inputs]
    IN  IF Exists(f, getModifiedWitnessPath(k))
        THEN [fs |-> f, p |-> WitnessFileFound(c0, getModifiedWitnessPath(k), then)]
        ELSE [fs |-> f, p |-> WitnessFileFound(c0, getTemporaryWitnessPath(k), then)]

(* A query that prefers the original witness file to the modified one *)
getWitnessFilePathOriginalFirst(f, k, call, hasInputs, inputs, then) ==
    LET c0 == [call EXCEPT !.hasInputs = hasInputs, !.inputs = inputs]
    IN  IF Exists(f, getTemporaryWitnessPath(k))
        THEN [fs |-> f, p |-> WitnessFileFound(c0, getTemporaryWitnessPath(k), then)]
        ELSE IF Exists(f, getModifiedWitnessPath(k))
        THEN [fs |-> f, p |-> WitnessFileFound(c0, getModifiedWitnessPath(k), then)]
        ELSE [fs |-> f,
              p |-> Settled(Thrown(c0, <<"Witness file not found. Inputs are required to calculate witness.">>))]

(* getWitnessFilePath(inputs?) up to its first await, for a caller that       *)
(* returns the path or, generateProof, that goes on to prove from it          *)
getWitnessFilePathCalled(f, k, call, hasInputs, inputs, then) ==
    LET modifiedWitness == getModifiedWitnessPath(k)
        originalWitness == getTemporaryWitnessPath(k)
        c0 == [call EXCEPT !.hasInputs = hasInputs, !.inputs = inputs]
    IN  IF Exists(f, modifiedWitness)
        THEN [fs |-> f, p |-> WitnessFileFound(c0, modifiedWitness, then)]
        ELSE IF Exists(f, originalWitness)
        THEN [fs |-> f, p |-> WitnessFileFound(c0, originalWitness, then)]
        ELSE IF ~hasInputs
        THEN [fs |-> f,
              p |-> Settled(Thrown(c0, <<"Witness file not found. Inputs are required to calculate witness.">>))]
        ELSE calculateWitnessCalled(f, k, c0, inputs, then)

(* generateProof(inputs?) up to its first await *)
generateProofCalled(f, k, call, hasInputs, inputs) ==
    LET c0 == [call EXCEPT !.hasInputs = hasInputs, !.inputs = inputs]
    IN  IF ~HasArtifact(k, "zkey")
        THEN [fs |-> f, p |-> Settled(Thrown(c0, ExpectedFileError("zkey")))]
        ELSE getWitnessFilePathCalled(f, k, c0, hasInputs, inputs, "prove")

(* _implementer.generateProof: snarkjs.groth16.prove reads the witness file  *)
(* at the path that was chosen, as the file is by now, and the implementer   *)
(* calls terminateCurve                                                       *)
generateProofProve(f, k, p) ==
    LET r == readBinFile(f, p.call.path)
    IN  IF ~r.ok
        THEN [fs |-> f, p |-> Settled(Thrown(p.call, r.error))]
        ELSE [fs |-> f,
              p |-> [p EXCEPT !.pc = "terminateCurve",
                              !.call.proof = implementerGenerateProof(f[p.call.path])]]

(* terminateCurve has settled: the implementer returns the proof, and        *)
(* generateProof returns it                                                   *)
generateProofReturn(f, k, p) == [fs |-> f, p |-> Settled(p.call)]

(* A resetWitness that removes the original witness file *)
resetWitnessOriginal(f, k, call) ==
    LET wtnsFile == getTemporaryWitnessPath(k)
    IN  [fs |-> IF Exists(f, wtnsFile) THEN RemoveFile(f, wtnsFile) ELSE f,
         ret |-> call]

(* A reset that removes the modified file without looking whether it exists *)
resetWitnessUnguarded(f, k, call) ==
    IF Exists(f, getModifiedWitnessPath(k))
    THEN [fs |-> RemoveFile(f, getModifiedWitnessPath(k)), ret |-> call]
    ELSE [fs |-> f,
          ret |-> Thrown(call, <<"ENOENT: no such file or directory">>
                                  \o getModifiedWitnessPath(k))]

(* A reset that removes the original witness file as well *)
resetWitnessAll(f, k, call) ==
    [fs |-> RemoveFile(RemoveFile(f, getModifiedWitnessPath(k)), getTemporaryWitnessPath(k)),
     ret |-> call]

(* resetWitness(): it has no await *)
resetWitness(f, k, call) ==
    LET modifiedWtnsFile == getModifiedWitnessPath(k)
    IN  [fs |-> IF Exists(f, modifiedWtnsFile) THEN RemoveFile(f, modifiedWtnsFile) ELSE f,
         ret |-> call]

---------------------------------------------------------------------------
(* The utilities as CircuitZKit.ts calls them.  The class imports            *)
(* modifyWitnessArray and writeWitnessFile from "../utils" and calls          *)
(* modifyWitnessArray(wtnsJson, symFile, witnessOverrides) and                *)
(* writeWitnessFile(witnessFile, witness).  writeWitnessFile(witnessPath,     *)
(* witness) is that of witness-utils.ts.  The modifyWitnessArray that takes   *)
(* the path of the .sym file, rejects with "Signals not found in .sym file:   *)
(* ..." and resolves with the overridden vector is in none of the revisions   *)
(* of the utilities at hand: it is the override engine as the specification   *)
(* of the library states it, on top of the resolver the specification states. *)

(* The index map of the resolver: signalName -> witnessIndex for each entry  *)
(* of the reader (a line of four fields) whose witness index is an integer    *)
(* that is not negative; a later entry of the same name wins                  *)
RECURSIVE recordEntries(_)
recordEntries(lines) ==
    IF lines = <<>> THEN <<>>
    ELSE LET entry == lines[Len(lines)]
             rest == recordEntries(SubSeq(lines, 1, Len(lines) - 1))
         IN  IF Len(entry) = 4 /\ entry[2].isInteger /\ entry[2].value >= 0
             THEN [n \in DOMAIN rest \cup {entry[4]} |->
                      IF n = entry[4] THEN entry[2].value ELSE rest[n]]
             ELSE rest

(* resolve(symbolTablePath, requestedNames): the index map, or the one error *)
(* that lists every requested name the map does not hold, in the order        *)
(* supplied                                                                   *)
resolve(lines, requestedNames) ==
    LET resolvedIndex == recordEntries(lines)
        unresolved == SelectNames(requestedNames, Range(requestedNames) \ DOMAIN resolvedIndex)
    IN  IF unresolved # <<>>
        THEN [ok |-> FALSE, error |-> <<"Signals not found in .sym file: ">> \o unresolved,
              resolvedIndex |-> <<>>]
        ELSE [ok |-> TRUE, error |-> <<>>, resolvedIndex |-> resolvedIndex]

(* for each (name, value) in overrides: copy[resolvedIndex[name]] = value *)
RECURSIVE setEach(_, _, _)
setEach(copy, resolvedIndex, overrides) ==
    IF overrides = <<>> THEN copy
    ELSE setEach(SetElement(copy, Num(resolvedIndex[Head(overrides)[1]]), Head(overrides)[2]),
                 resolvedIndex, Tail(overrides))

(* apply(symbolTablePath, originalVector, overrides): every name is resolved  *)
(* before an element is set                                                    *)
apply(lines, originalVector, overrides) ==
    LET r == resolve(lines, OverrideKeys(overrides))
    IN  IF ~r.ok
        THEN [ok |-> FALSE, error |-> r.error, witness |-> originalVector]
        ELSE [ok |-> TRUE, error |-> <<>>,
              witness |-> setEach(originalVector, r.resolvedIndex, overrides)]

---------------------------------------------------------------------------
(* CircuitZKit with a single temporary witness file and per-call overrides,  *)
(* and the witness codec, whose writeWitnessFile it calls                    *)

(* The finally block of generateProof: fs.rmSync(witnessFile) throws when the  *)
(* file does not exist, and an error thrown in finally replaces the pending one *)
RemoveTemporaryWitness(f, witnessFile, r) ==
    IF Exists(f, witnessFile)
    THEN [fs |-> RemoveFile(f, witnessFile), ret |-> r]
    ELSE [fs |-> f,
          ret |-> Thrown([r EXCEPT !.proof = NoProof],
                         <<"ENOENT: no such file or directory">> \o witnessFile)]

(* A step throws.  The call rejects; generateProof of this class, inside     *)
(* whose try block the step was awaited, runs the finally block and rejects  *)
Rejected(f, k, then, call, error) ==
    IF then = "proof"
    THEN LET w == RemoveTemporaryWitness(f, getTemporaryWitnessPath(k), Thrown(call, error))
         IN  [fs |-> w.fs, p |-> Settled(w.ret)]
    ELSE [fs |-> f, p |-> Settled(Thrown(call, error))]

(* calculateWitness(inputs, witnessOverrides?) up to its first await *)
calculateWitnessOverridesCalled(f, k, call, inputs, hasOverrides, overrides, then) ==
    LET c0 == [call EXCEPT !.hasInputs = TRUE, !.inputs = inputs,
                           !.hasOverrides = hasOverrides, !.overrides = overrides]
    IN  IF ~HasArtifact(k, "wasm")
        THEN Rejected(f, k, then, c0, ExpectedFileError("wasm"))
        ELSE IF ~HasArtifact(k, "sym")
        THEN Rejected(f, k, then, c0, ExpectedFileError("sym"))
        ELSE [fs |-> f, p |-> Suspended("wtns.calculate", then, c0)]

(* snarkjs.wtns.exportJson reads the witness file as it is by now.  With no  *)
(* overrides calculateWitness returns the vector read, and generateProof,     *)
(* which awaited it, proves; with overrides modifyWitnessArray is called      *)
calculateWitnessOverridesExport(f, k, p) ==
    LET wtnsFile == getTemporaryWitnessPath(k)
        r == readBinFile(f, wtnsFile)
    IN  IF ~r.ok
        THEN Rejected(f, k, p.then, p.call, r.error)
        ELSE IF p.call.hasOverrides
        THEN [fs |-> f, p |-> [p EXCEPT !.pc = "modifyWitnessArray",
                                        !.witness = exportJson(f[wtnsFile])]]
        ELSE IF p.then = "witness"
        THEN [fs |-> f, p |-> Settled([p.call EXCEPT !.witness = exportJson(f[wtnsFile])])]
        ELSE [fs |-> f, p |-> [p EXCEPT !.pc = "generateProof",
                                        !.witness = exportJson(f[wtnsFile])]]

(* modifyWitnessArray settles: calculateWitness rejects with its error or     *)
(* returns the vector; generateProof, which awaited it, calls                 *)
(* writeWitnessFile(witnessFile, witness), which calls getWitnessPrime        *)
calculateWitnessOverridesModify(f, k, p) ==
    LET m == apply(k.sym, p.witness, p.call.overrides)
    IN  IF ~m.ok
        THEN Rejected(f, k, p.then, p.call, m.error)
        ELSE IF p.then = "witness"
        THEN [fs |-> f, p |-> Settled([p.call EXCEPT !.witness = m.witness])]
        ELSE [fs |-> f, p |-> [p EXCEPT !.pc = "readBinFile",
                                        !.call.path = getTemporaryWitnessPath(k),
                                        !.witness = m.witness]]

(* generateProof(inputs, witnessOverrides?) up to its first await *)
generateProofOverridesCalled(f, k, call, inputs, hasOverrides, overrides) ==
    LET c0 == [call EXCEPT !.hasInputs = TRUE, !.inputs = inputs,
                           !.hasOverrides = hasOverrides, !.overrides = overrides]
    IN  IF ~HasArtifact(k, "zkey")
        THEN [fs |-> f, p |-> Settled(Thrown(c0, ExpectedFileError("zkey")))]
        ELSE calculateWitnessOverridesCalled(f, k, c0, inputs, hasOverrides, overrides, "proof")

(* getWitnessPrime(wtnsPath) up to its first await: readBinFile is called *)
getWitnessPrimeCalled(f, call, wtnsPath) ==
    [fs |-> f, p |-> Suspended("readBinFile", "prime", [call EXCEPT !.path = wtnsPath])]

(* A writer that creates the file before it reads the prime of the old one *)
writeWitnessFileCalledTruncating(f, call, witnessPath, witness) ==
    [fs |-> WriteFile(f, witnessPath, EmptyFile),
     p |-> [Suspended("readBinFile", "write", [call EXCEPT !.path = witnessPath])
               EXCEPT !.witness = witness]]

(* writeWitnessFile(witnessPath, witness) up to its first await:              *)
(* getWitnessPrime(witnessPath) is called, which calls readBinFile             *)
writeWitnessFileCalled(f, call, witnessPath, witness) ==
    [fs |-> f,
     p |-> [Suspended("readBinFile", "write", [call EXCEPT !.path = witnessPath])
               EXCEPT !.witness = witness]]

(* readBinFile opens the file as it is by now and checks its type and        *)
(* version; the header of a witness file, and the prime in it, lie in the    *)
(* page it has read                                                           *)
getWitnessPrimeOpen(f, k, p) ==
    LET r == readBinFile(f, p.call.path)
    IN  IF ~r.ok
        THEN Rejected(f, k, p.then, p.call, r.error)
        ELSE [fs |-> f,
              p |-> [p EXCEPT !.pc = "readBinFile:close",
                              !.prime = getWitnessPrime(f[p.call.path])]]

(* getWitnessPrime has read the section and closed the file: it returns the  *)
(* prime, and writeWitnessFile, which awaited it, calls createBinFile         *)
getWitnessPrimeClose(f, k, p) ==
    IF p.then = "prime"
    THEN [fs |-> f, p |-> Settled([p.call EXCEPT !.prime = p.prime])]
    ELSE [fs |-> f, p |-> [p EXCEPT !.pc = "createBinFile"]]

(* writeWitnessFile(witnessPath, witness, prime) up to its first await:       *)
(* createBinFile is called                                                     *)
writeWitnessFilePrimeCalled(f, call, witnessPath, witness, prime) ==
    [fs |-> f,
     p |-> [Suspended("createBinFile", "write", [call EXCEPT !.path = witnessPath])
               EXCEPT !.witness = witness, !.prime = prime]]

(* createBinFile creates the file, or truncates it *)
writeWitnessFileCreate(f, k, p) ==
    [fs |-> WriteFile(f, p.call.path, EmptyFile),
     p |-> [p EXCEPT !.pc = "fd.close", !.linked = TRUE]]

(* The sections are written and the file is closed: it holds the vector with *)
(* the prime.  A file that was replaced after it was created is no longer at  *)
(* its path: what is written to it is lost.  writeWitnessFile returns, and    *)
(* generateProof, which awaited it, calls the proving backend                 *)
writeWitnessFileClose(f, k, p) ==
    LET wrote == <<<<p.call.path, p.witness>>>>
    IN  [fs |-> IF p.linked
                THEN WriteFile(f, p.call.path, writeWitnessFile(p.witness, p.prime))
                ELSE f,
         p |-> IF p.then = "proof"
               THEN [p EXCEPT !.pc = "generateProof", !.linked = FALSE, !.call.wrote = wrote]
               ELSE Settled([p.call EXCEPT !.witness = p.witness, !.prime = p.prime,
                                           !.wrote = wrote])]

(* _implementer.generateProof: snarkjs.groth16.prove reads the temporary     *)
(* witness file as it is by now, and the implementer calls terminateCurve    *)
generateProofOverridesProve(f, k, p) ==
    LET witnessFile == getTemporaryWitnessPath(k)
        r == readBinFile(f, witnessFile)
    IN  IF ~r.ok
        THEN Rejected(f, k, p.then, p.call, r.error)
        ELSE [fs |-> f,
              p |-> [p EXCEPT !.pc = "terminateCurve",
                              !.call.path = witnessFile,
                              !.call.proof = implementerGenerateProof(f[witnessFile])]]

(* terminateCurve has settled and the implementer returns the proof: the     *)
(* finally block removes the witness file and generateProof returns the proof *)
generateProofOverridesFinally(f, k, p) ==
    LET w == RemoveTemporaryWitness(f, getTemporaryWitnessPath(k), p.call)
    IN  [fs |-> w.fs, p |-> Settled(w.ret)]

---------------------------------------------------------------------------
(* The event loop *)

(* A suspended call is resumed: it runs to its next await, or settles *)
Resume(f, k, p) ==
    CASE p.pc = "wtns.calculate" -> wtnsCalculateCreate(f, k, p)
      [] p.pc = "wtns.calculate:close" -> wtnsCalculateClose(f, k, p)
      [] p.pc = "wtns.exportJson" /\ k.api = "tracker" -> calculateWitnessExport(f, k, p)
      [] p.pc = "wtns.exportJson" /\ k.api # "tracker" -> calculateWitnessOverridesExport(f, k, p)
      [] p.pc = "modifyWitnessArray" -> calculateWitnessOverridesModify(f, k, p)
      [] p.pc = "modify:exportJson" -> modifyWitnessExport(f, k, p)
      [] p.pc = "loadSignalToIndexMap" -> modifyWitnessLoad(f, k, p)
      [] p.pc = "getWitnessPrime" -> modifyWitnessPrime(f, k, p)
      [] p.pc = "writeWitnessFile" -> modifyWitnessCreate(f, k, p)
      [] p.pc = "writeWitnessFile:close" -> modifyWitnessWritten(f, k, p)
      [] p.pc = "generateProof" /\ k.api = "tracker" -> generateProofProve(f, k, p)
      [] p.pc = "generateProof" /\ k.api # "tracker" -> generateProofOverridesProve(f, k, p)
      [] p.pc = "terminateCurve" /\ k.api = "tracker" -> generateProofReturn(f, k, p)
      [] p.pc = "terminateCurve" /\ k.api # "tracker" -> generateProofOverridesFinally(f, k, p)
      [] p.pc = "readBinFile" -> getWitnessPrimeOpen(f, k, p)
      [] p.pc = "readBinFile:close" -> getWitnessPrimeClose(f, k, p)
      [] p.pc = "createBinFile" -> writeWitnessFileCreate(f, k, p)
      [] p.pc = "fd.close" -> writeWitnessFileClose(f, k, p)

(* The caller awaits the call and makes no other call meanwhile: the steps   *)
(* run one after another until the call settles                              *)
RECURSIVE Await(_, _, _)
Await(f, k, p) ==
    IF p.pc = "settled"
    THEN [fs |-> f, ret |-> p.call]
    ELSE Await(Resume(f, k, p).fs, k, Resume(f, k, p).p)

(* await calculateWitness(inputs) *)
calculateWitness(f, k, call, inputs) ==
    LET s == calculateWitnessCalled(f, k, call, inputs, "witness")
    IN  Await(s.fs, k, s.p)

(* await modifyWitness(overrides) *)
modifyWitness(f, k, call, overrides) ==
    LET s == modifyWitnessCalled(f, k, call, overrides)
    IN  Await(s.fs, k, s.p)

(* await getWitnessFilePath(inputs?) *)
getWitnessFilePath(f, k, call, hasInputs, inputs) ==
    LET s == getWitnessFilePathCalled(f, k, call, hasInputs, inputs, "path")
    IN  Await(s.fs, k, s.p)

(* await generateProof(inputs?) *)
generateProof(f, k, call, hasInputs, inputs) ==
    LET s == generateProofCalled(f, k, call, hasInputs, inputs)
    IN  Await(s.fs, k, s.p)

(* await calculateWitness(inputs, witnessOverrides?) *)
calculateWitnessOverrides(f, k, call, inputs, hasOverrides, overrides) ==
    LET s == calculateWitnessOverridesCalled(f, k, call, inputs, hasOverrides, overrides,
                                             "witness")
    IN  Await(s.fs, k, s.p)

(* await generateProof(inputs, witnessOverrides?) *)
generateProofOverrides(f, k, call, inputs, hasOverrides, overrides) ==
    LET s == generateProofOverridesCalled(f, k, call, inputs, hasOverrides, overrides)
    IN  Await(s.fs, k, s.p)

---------------------------------------------------------------------------
(* The state machine *)

Apis == {"tracker", "oneshot", "utils", "codec"}

(* A caller that awaits every call before it makes the next one, and one     *)
(* that does not, as in Promise.all([...])                                    *)
Callers == {"awaits", "overlaps"}

Configs ==
    {k \in [api : Apis, circuitName : CircuitNames, sym : SymFiles, prime : Primes,
            artifacts : ArtifactSets, caller : Callers] :
        /\ k.api \in {"utils", "codec"} => k.artifacts = AllArtifacts /\ k.caller = "awaits"
        /\ k.api = "utils" => k.prime = 65521
        /\ k.api = "codec" => k.sym = SymMultiplier
        /\ k.sym # SymMultiplier => k.prime = 65521
        /\ k.artifacts # AllArtifacts => k.sym = SymMultiplier /\ k.prime = 65521
        /\ k.caller = "overlaps"
           => k.artifacts = AllArtifacts /\ k.sym = SymMultiplier /\ k.prime = 65521}

Instances == {1}

(* The tasks of the caller: each makes one call at a time *)
Tasks == {1, 2}

(* The tasks that call instance c: one, as many as overlap their calls, or,  *)
(* where each object has a caller of its own, the task of that object         *)
TasksOf(c) ==
    CASE cfg[c].caller = "overlaps" -> Tasks
      [] cfg[c].caller = "of its own" -> {c}
      [] OTHER -> {1}

NoPending == [t \in Tasks |-> Idle]

Init ==
    /\ cfg \in [Instances -> Configs]
    /\ fs = NoFiles
    /\ heap = NoFiles
    /\ ret = NoCall
    /\ pending = NoPending

(* The inputs a caller passes *)
InputsOf(k) == IF k.caller = "of its own" THEN {<<20, 10>>} ELSE InputSets

OptionalInputs(k) == {<<FALSE, <<>>>>} \cup {<<TRUE, i>> : i \in InputsOf(k)}

(* The override sets passed by a caller whose calls overlap *)
ShortOverrides ==
    {ov \in OverrideSeqs : Len(ov) = 1 /\ ov[1][1] = "main.a"}

(* The override sets the caller of an instance passes *)
OverridesOf(k) == IF k.caller = "awaits" THEN OverrideSeqs ELSE ShortOverrides

OptionalOverrides(k) == {<<FALSE, <<>>>>} \cup {<<TRUE, ov>> : ov \in OverridesOf(k)}

(* No call is in flight *)
Quiet == \A t \in Tasks : pending[t].pc = "idle"

(* What the record of a call keeps of the call r that settled right before  *)
(* it: a modifyWitness or a resetWitness, with the vector it returned        *)
LastOf(r) ==
    IF r.op \in {"modifyWitness", "resetWitness"}
    THEN [op |-> r.op, ok |-> r.ok, alone |-> r.alone, witness |-> r.witness]
    ELSE NoLast

(* Task t has made a call or its call has been resumed: the call is left     *)
(* suspended at its next await or, settled, becomes the last call; the       *)
(* caller holds no result from the moment it makes a call until a call       *)
(* settles.  A call made while another is in flight is not alone, nor is the *)
(* other; the record of a call that is alone keeps the files as they were    *)
(* when it was made and the call that had settled last when that one        *)
(* changed the witness files of the tracker.  A file                         *)
(* the step removes is gone from its path for the calls that have created    *)
(* it and not yet closed it                                                  *)
Step(t, s) ==
    LET calling == pending[t].pc = "idle"
        overlapping == \E u \in Tasks \ {t} : pending[u].pc # "idle"
        mine == IF calling /\ overlapping THEN [s.p EXCEPT !.call.alone = FALSE]
                ELSE IF calling
                THEN [s.p EXCEPT !.call.before = fs,
                                 !.call.last = LastOf(ret)]
                ELSE s.p
        removed == DOMAIN fs \ DOMAIN s.fs
        other(u) ==
            LET q == IF calling
                     THEN [pending[u] EXCEPT !.call.alone = FALSE, !.call.before = NoFiles,
                                             !.call.last = NoLast]
                     ELSE pending[u]
            IN  IF OpenPath(cfg[q.call.inst], q) \in removed
                THEN [q EXCEPT !.linked = FALSE]
                ELSE q
    IN  /\ fs' = s.fs
        /\ ret' = IF mine.pc = "settled" THEN mine.call
                  ELSE IF calling THEN NoCall
                  ELSE ret
        /\ pending' = [u \in Tasks |->
                          IF u = t THEN IF mine.pc = "settled" THEN Idle ELSE mine
                          ELSE IF pending[u].pc = "idle" THEN pending[u]
                          ELSE other(u)]
        /\ UNCHANGED <<cfg, heap>>

(* Task t may call a method of instance c, of the class `api` *)
MayCall(t, c, api) ==
    /\ cfg[c].api = api
    /\ t \in TasksOf(c)
    /\ pending[t].pc = "idle"

(* The call of task t, on instance c, is suspended at pc *)
SuspendedAt(t, c, pc) == pending[t].pc = pc /\ pending[t].call.inst = c

CallCalculateWitness(t, c) ==
    /\ MayCall(t, c, "tracker")
    /\ \E inputs \in InputsOf(cfg[c]) :
          Step(t, calculateWitnessCalled(fs, cfg[c], Call("calculateWitness", c),
                                         inputs, "witness"))

CallModifyWitness(t, c) ==
    /\ MayCall(t, c, "tracker")
    /\ \E overrides \in OverridesOf(cfg[c]) :
          Step(t, modifyWitnessCalled(fs, cfg[c], Call("modifyWitness", c), overrides))

(* resetWitness has no await: it settles in the step that calls it *)
CallResetWitness(t, c) ==
    /\ MayCall(t, c, "tracker")
    /\ LET r == resetWitness(fs, cfg[c], Call("resetWitness", c))
       IN  Step(t, [fs |-> r.fs, p |-> Settled(r.ret)])

CallGetWitnessFilePath(t, c) ==
    /\ MayCall(t, c, "tracker")
    /\ \E i \in OptionalInputs(cfg[c]) :
          Step(t, getWitnessFilePathCalled(fs, cfg[c], Call("getWitnessFilePath", c),
                                           i[1], i[2], "path"))

CallGenerateProof(t, c) ==
    /\ MayCall(t, c, "tracker")
    /\ \E i \in OptionalInputs(cfg[c]) :
          Step(t, generateProofCalled(fs, cfg[c], Call("generateProof", c), i[1], i[2]))

CallCalculateWitnessOverrides(t, c) ==
    /\ MayCall(t, c, "oneshot")
    /\ \E inputs \in InputsOf(cfg[c]), o \in OptionalOverrides(cfg[c]) :
          Step(t, calculateWitnessOverridesCalled(fs, cfg[c], Call("calculateWitness", c),
                                                  inputs, o[1], o[2], "witness"))

CallGenerateProofOverrides(t, c) ==
    /\ MayCall(t, c, "oneshot")
    /\ \E inputs \in InputsOf(cfg[c]), o \in OptionalOverrides(cfg[c]) :
          Step(t, generateProofOverridesCalled(fs, cfg[c], Call("generateProof", c),
                                               inputs, o[1], o[2]))

WtnsCalculateCreate(t, c) ==
    /\ SuspendedAt(t, c, "wtns.calculate")
    /\ Step(t, wtnsCalculateCreate(fs, cfg[c], pending[t]))

WtnsCalculateClose(t, c) ==
    /\ SuspendedAt(t, c, "wtns.calculate:close")
    /\ Step(t, wtnsCalculateClose(fs, cfg[c], pending[t]))

CalculateWitnessExport(t, c) ==
    /\ SuspendedAt(t, c, "wtns.exportJson") /\ cfg[c].api = "tracker"
    /\ Step(t, calculateWitnessExport(fs, cfg[c], pending[t]))

ModifyWitnessExport(t, c) ==
    /\ SuspendedAt(t, c, "modify:exportJson")
    /\ Step(t, modifyWitnessExport(fs, cfg[c], pending[t]))

ModifyWitnessLoad(t, c) ==
    /\ SuspendedAt(t, c, "loadSignalToIndexMap")
    /\ Step(t, modifyWitnessLoad(fs, cfg[c], pending[t]))

ModifyWitnessPrime(t, c) ==
    /\ SuspendedAt(t, c, "getWitnessPrime")
    /\ Step(t, modifyWitnessPrime(fs, cfg[c], pending[t]))

ModifyWitnessCreate(t, c) ==
    /\ SuspendedAt(t, c, "writeWitnessFile")
    /\ Step(t, modifyWitnessCreate(fs, cfg[c], pending[t]))

ModifyWitnessWritten(t, c) ==
    /\ SuspendedAt(t, c, "writeWitnessFile:close")
    /\ Step(t, modifyWitnessWritten(fs, cfg[c], pending[t]))

GenerateProofProve(t, c) ==
    /\ SuspendedAt(t, c, "generateProof") /\ cfg[c].api = "tracker"
    /\ Step(t, generateProofProve(fs, cfg[c], pending[t]))

GenerateProofReturn(t, c) ==
    /\ SuspendedAt(t, c, "terminateCurve") /\ cfg[c].api = "tracker"
    /\ Step(t, generateProofReturn(fs, cfg[c], pending[t]))

CalculateWitnessOverridesExport(t, c) ==
    /\ SuspendedAt(t, c, "wtns.exportJson") /\ cfg[c].api = "oneshot"
    /\ Step(t, calculateWitnessOverridesExport(fs, cfg[c], pending[t]))

CalculateWitnessOverridesModify(t, c) ==
    /\ SuspendedAt(t, c, "modifyWitnessArray")
    /\ Step(t, calculateWitnessOverridesModify(fs, cfg[c], pending[t]))

GenerateProofOverridesProve(t, c) ==
    /\ SuspendedAt(t, c, "generateProof") /\ cfg[c].api = "oneshot"
    /\ Step(t, generateProofOverridesProve(fs, cfg[c], pending[t]))

GenerateProofOverridesFinally(t, c) ==
    /\ SuspendedAt(t, c, "terminateCurve") /\ cfg[c].api = "oneshot"
    /\ Step(t, generateProofOverridesFinally(fs, cfg[c], pending[t]))

(* The steps of getWitnessPrime and of writeWitnessFile, called by            *)
(* generateProof or by a caller of the codec                                  *)
GetWitnessPrimeOpen(t, c) ==
    /\ SuspendedAt(t, c, "readBinFile")
    /\ Step(t, getWitnessPrimeOpen(fs, cfg[c], pending[t]))

GetWitnessPrimeClose(t, c) ==
    /\ SuspendedAt(t, c, "readBinFile:close")
    /\ Step(t, getWitnessPrimeClose(fs, cfg[c], pending[t]))

WriteWitnessFileCreate(t, c) ==
    /\ SuspendedAt(t, c, "createBinFile")
    /\ Step(t, writeWitnessFileCreate(fs, cfg[c], pending[t]))

WriteWitnessFileClose(t, c) ==
    /\ SuspendedAt(t, c, "fd.close")
    /\ Step(t, writeWitnessFileClose(fs, cfg[c], pending[t]))

(* A caller of the exported utilities: it holds one witness array, as          *)
(* snarkjs.wtns.exportJson returns it, and passes it to the utilities          *)
ExportJsonCall(c) ==
    /\ cfg[c].api \in {"utils", "codec"}
    /\ Quiet
    /\ \E inputs \in InputSets :
          LET w == exportJson(wtnsCalculate(inputs, cfg[c].prime))
          IN  /\ heap' = [r \in {1} |-> w]
              /\ ret' = [Call("exportJson", c) EXCEPT
                            !.hasInputs = TRUE, !.inputs = inputs, !.witness = w, !.ref = 1]
    /\ UNCHANGED <<pending, cfg, fs>>

CheckWitnessOverridesCall(c) ==
    /\ cfg[c].api = "utils"
    /\ \E overrides \in OverrideSeqs :
          LET r == checkWitnessOverrides(cfg[c].sym, overrides)
          IN  ret' = [Call("checkWitnessOverrides", c) EXCEPT
                         !.hasOverrides = TRUE, !.overrides = overrides,
                         !.ok = r.ok, !.error = r.error, !.indexes = r.indexes]
    /\ UNCHANGED <<pending, cfg, fs, heap>>

(* modifyWitnessArray with the index map checkWitnessOverrides has returned *)
ModifyWitnessArrayCall(c) ==
    /\ cfg[c].api = "utils"
    /\ LET checked == checkWitnessOverrides(cfg[c].sym, <<>>)
       IN  /\ checked.ok
           /\ \E ref \in DOMAIN heap, overrides \in OverrideSeqs :
                 LET r == modifyWitnessArray(heap, ref, checked.indexes, overrides)
                 IN  /\ heap' = r.heap
                     /\ ret' = [Call("modifyWitnessArray", c) EXCEPT
                                   !.hasOverrides = TRUE, !.overrides = overrides,
                                   !.argRef = ref, !.argWitness = heap[ref],
                                   !.indexes = checked.indexes,
                                   !.ref = r.ref, !.witness = r.heap[r.ref]]
    /\ UNCHANGED <<pending, cfg, fs>>

ModifyWitnessArraySymCall(c) ==
    /\ cfg[c].api = "utils"
    /\ LET signalIndexes == loadSignalToIndexMap(cfg[c].sym)
       IN  \E ref \in DOMAIN heap, overrides \in OverrideSeqs :
              LET r == modifyWitnessArraySym(heap[ref], signalIndexes, overrides)
              IN  /\ heap' = [heap EXCEPT ![ref] = r.witness]
                  /\ ret' = [Call("modifyWitnessArraySym", c) EXCEPT
                                !.hasOverrides = TRUE, !.overrides = overrides,
                                !.argRef = ref, !.argWitness = heap[ref],
                                !.ok = r.ok, !.error = r.error,
                                !.ref = IF r.ok THEN ref ELSE 0,
                                !.witness = IF r.ok THEN r.witness ELSE <<>>]
    /\ UNCHANGED <<pending, cfg, fs>>

(* iterateSymFile with a callback that collects what it is passed *)
IterateSymFileCall(c) ==
    /\ cfg[c].api = "utils"
    /\ LET r == iterateSymFile(cfg[c].sym)
       IN  ret' = [Call("iterateSymFile", c) EXCEPT
                      !.ok = r.ok, !.error = r.error, !.entries = r.entries]
    /\ UNCHANGED <<pending, cfg, fs, heap>>

(* The same call on the revision whose reader drops negative witness indexes *)
IterateSymFileValidCall(c) ==
    /\ cfg[c].api = "utils"
    /\ ret' = [Call("iterateSymFileValid", c) EXCEPT
                  !.entries = iterateSymFileValid(cfg[c].sym)]
    /\ UNCHANGED <<pending, cfg, fs, heap>>

(* A caller of the witness codec: it writes the array it holds to a witness    *)
(* file of the temporary directory and reads primes back                       *)
WitnessPaths(k) == {getTemporaryWitnessPath(k), getModifiedWitnessPath(k)}

(* writeWitnessFile(witnessPath, witness, prime) *)
WriteWitnessFilePrimeCall(t, c) ==
    /\ MayCall(t, c, "codec")
    /\ \E ref \in DOMAIN heap, p \in WitnessPaths(cfg[c]), prime \in Primes :
          Step(t, writeWitnessFilePrimeCalled(fs, Call("writeWitnessFilePrime", c), p,
                                              heap[ref], prime))

(* writeWitnessFile(witnessPath, witness) *)
WriteWitnessFileCall(t, c) ==
    /\ MayCall(t, c, "codec")
    /\ \E ref \in DOMAIN heap, p \in WitnessPaths(cfg[c]) :
          Step(t, writeWitnessFileCalled(fs, Call("writeWitnessFile", c), p, heap[ref]))

(* getWitnessPrime(wtnsPath) *)
GetWitnessPrimeCall(t, c) ==
    /\ MayCall(t, c, "codec")
    /\ \E p \in WitnessPaths(cfg[c]) :
          Step(t, getWitnessPrimeCalled(fs, Call("getWitnessPrime", c), p))

(* Another program moves a file that is no witness file to a witness path,   *)
(* also while a call of the codec is in flight: a file the call has created  *)
(* and not yet closed is no longer at the path                                *)
ForeignFile(c) ==
    /\ cfg[c].api = "codec"
    /\ \E p \in WitnessPaths(cfg[c]), file \in ForeignFiles :
          /\ fs' = WriteFile(fs, p, file)
          /\ ret' = [Call("none", c) EXCEPT !.path = p]
          /\ pending' = [t \in Tasks |->
                            IF pending[t].pc = "idle" THEN pending[t]
                            ELSE [pending[t] EXCEPT
                                     !.call.alone = FALSE,
                                     !.linked = @ /\ OpenPath(cfg[c], pending[t]) # p]]
    /\ UNCHANGED <<cfg, heap>>

Next ==
    \/ \E t \in Tasks, c \in Instances :
          \/ CallCalculateWitness(t, c)
          \/ CallModifyWitness(t, c)
          \/ CallResetWitness(t, c)
          \/ CallGetWitnessFilePath(t, c)
          \/ CallGenerateProof(t, c)
          \/ WtnsCalculateCreate(t, c)
          \/ WtnsCalculateClose(t, c)
          \/ CalculateWitnessExport(t, c)
          \/ ModifyWitnessExport(t, c)
          \/ ModifyWitnessLoad(t, c)
          \/ ModifyWitnessPrime(t, c)
          \/ ModifyWitnessCreate(t, c)
          \/ ModifyWitnessWritten(t, c)
          \/ GenerateProofProve(t, c)
          \/ GenerateProofReturn(t, c)
          \/ CallCalculateWitnessOverrides(t, c)
          \/ CallGenerateProofOverrides(t, c)
          \/ CalculateWitnessOverridesExport(t, c)
          \/ CalculateWitnessOverridesModify(t, c)
          \/ GenerateProofOverridesProve(t, c)
          \/ GenerateProofOverridesFinally(t, c)
          \/ GetWitnessPrimeCall(t, c)
          \/ WriteWitnessFileCall(t, c)
          \/ WriteWitnessFilePrimeCall(t, c)
          \/ GetWitnessPrimeOpen(t, c)
          \/ GetWitnessPrimeClose(t, c)
          \/ WriteWitnessFileCreate(t, c)
          \/ WriteWitnessFileClose(t, c)
    \/ \E c \in Instances :
          \/ ExportJsonCall(c)
          \/ CheckWitnessOverridesCall(c)
          \/ ModifyWitnessArrayCall(c)
          \/ ModifyWitnessArraySymCall(c)
          \/ IterateSymFileCall(c)
          \/ IterateSymFileValidCall(c)
          \/ ForeignFile(c)

Spec == Init /\ [][Next]_vars

(* The header of writeWitnessFile for primes of every bit length up to MaxBits: *)
(* the caller holds a prime of some bit length                                  *)
InitWidth ==
    /\ cfg \in [Instances -> {k \in Configs : k.api = "codec"}]
    /\ fs = NoFiles
    /\ heap = NoFiles
    /\ \E bitLength \in 1..MaxBits : ret = [NoCall EXCEPT !.bitLength = bitLength]
    /\ pending = NoPending

(* writeWitnessFile computes n8 and writes it to the header *)
WriteHeader(c) ==
    /\ ret.op = "none"
    /\ ret' = [Call("writeHeader", c) EXCEPT
                  !.bitLength = ret.bitLength, !.n8 = n8OfBitLength(ret.bitLength)]
    /\ UNCHANGED <<pending, cfg, fs, heap>>

NextWidth == \E c \in Instances : WriteHeader(c)

SpecWidth == InitWidth /\ [][NextWidth]_vars

(* Two CircuitZKit objects in one process, of the same circuit or of two     *)
(* circuits: getTmpDir() is the same directory for both.  Each object has a  *)
(* caller of its own, which awaits each of its calls before it makes the     *)
(* next: the calls on the one object overlap with the calls on the other     *)
TwoInstances == {1, 2}

TwoCircuitNames == {"Multiplier", "Matrix"}

InitTwo ==
    /\ cfg \in [TwoInstances ->
                  [api : {"tracker"}, circuitName : TwoCircuitNames, sym : {SymMultiplier},
                   prime : {65521}, artifacts : {AllArtifacts}, caller : {"of its own"}]]
    /\ cfg[1].circuitName = "Multiplier"
    /\ fs = NoFiles
    /\ heap = NoFiles
    /\ ret = NoCall
    /\ pending = NoPending

NextTwo ==
    \E t \in Tasks, c \in TwoInstances :
        \/ CallCalculateWitness(t, c)
        \/ CallModifyWitness(t, c)
        \/ CallResetWitness(t, c)
        \/ CallGetWitnessFilePath(t, c)
        \/ CallGenerateProof(t, c)
        \/ WtnsCalculateCreate(t, c)
        \/ WtnsCalculateClose(t, c)
        \/ CalculateWitnessExport(t, c)
        \/ ModifyWitnessExport(t, c)
        \/ ModifyWitnessLoad(t, c)
        \/ ModifyWitnessPrime(t, c)
        \/ ModifyWitnessCreate(t, c)
        \/ ModifyWitnessWritten(t, c)
        \/ GenerateProofProve(t, c)
        \/ GenerateProofReturn(t, c)

SpecTwo == InitTwo /\ [][NextTwo]_vars

---------------------------------------------------------------------------
(* compile of the CircuitZKit that drives the compiler: the artifacts of a   *)
(* circuit are built in a temporary directory and moved to the artifacts     *)
(* directory when every step has succeeded.  Paths here are sequences of     *)
(* names; a directory is an entry of the file system as a file is             *)

(* The revisions of the circuit source *)
Sources == 1..MaxSources

(* CompileOptions: the options that are true once the defaults are overridden *)
CompileOptions == SUBSET {"sym", "json", "c", "quiet"}

(* The numbers of constraints of the circuits that are compiled: fetchPtauFile *)
(* takes circuits of up to 2^20 constraints                                   *)
ConstraintCounts == {2^20, 2^20 + 1}

(* What the search for a ptau file and its download come to: a file of the    *)
(* ptau directory supports the circuit, or none does and the file is          *)
(* downloaded, the download is not allowed, or the download fails.  The ptau  *)
(* directory is not among the files of the model                              *)
PtauOutcomes == {"found", "downloaded", "cancelled", "failed"}

Directory == [type |-> "dir", source |-> 0, constraints |-> 0]

(* A file made from a revision of the circuit source *)
File(source) == [type |-> "file", source |-> source, constraints |-> 0]

(* The r1cs file of a circuit, whose header section holds the number of       *)
(* constraints                                                                *)
R1cs(source, constraints) == [File(source) EXCEPT !.constraints = constraints]

(* A path is inside a directory *)
InDir(p, dir) == Len(p) > Len(dir) /\ SubSeq(p, 1, Len(dir)) = dir

(* path.relative(from, to) for a path inside `from`, or `from` itself *)
relative(from, to) == SubSeq(to, Len(from) + 1, Len(to))

(* fs.rmSync(dir, { recursive: true, force: true }) *)
RemoveDir(f, dir) == [q \in {p \in DOMAIN f : p # dir /\ ~InDir(p, dir)} |-> f[q]]

(* fs.mkdirSync(dir, { recursive: true }) *)
mkdirRecursive(f, dir) ==
    LET made == {SubSeq(dir, 1, n) : n \in 1..Len(dir)}
    IN  [q \in DOMAIN f \cup made |-> IF q \in DOMAIN f THEN f[q] ELSE Directory]

(* fs.mkdirSync(dir): the directory above must exist *)
mkdirSync(f, dir) ==
    IF Exists(f, dir)
    THEN [ok |-> FALSE, error |-> <<"EEXIST: file already exists, mkdir">> \o dir, fs |-> f]
    ELSE IF Len(dir) > 1 /\ ~Exists(f, SubSeq(dir, 1, Len(dir) - 1))
    THEN [ok |-> FALSE, error |-> <<"ENOENT: no such file or directory, mkdir">> \o dir,
          fs |-> f]
    ELSE [ok |-> TRUE, error |-> <<>>, fs |-> WriteFile(f, dir, Directory)]

(* The names the compiler and the library give to what they write for a      *)
(* circuit, in the order of their bytes, in which readdirSync lists them      *)
NamesInOrder(circuitId) ==
    <<circuitId \o ".r1cs", circuitId \o ".sym", circuitId \o ".vkey.json",
      circuitId \o ".zkey", circuitId \o "Verifier.sol", circuitId \o "_constraints.json",
      circuitId \o "_cpp", circuitId \o "_js">>

Rank(name) ==
    LET at == {i \in 1..8 : \E circuitId \in CircuitNames : NamesInOrder(circuitId)[i] = name}
    IN  IF at = {} THEN 0 ELSE CHOOSE i \in at : TRUE

(* fs.readdirSync(dir, { withFileTypes: true }): the entries of dir by name *)
readdirSync(f, dir) ==
    LET entries == {p \in DOMAIN f : Len(p) = Len(dir) + 1 /\ InDir(p, dir)}
        before(p) == {q \in entries : Rank(q[Len(q)]) < Rank(p[Len(p)])}
    IN  [i \in 1..Cardinality(entries) |->
            CHOOSE p \in entries : Cardinality(before(p)) = i - 1]

(* readDirRecursively(dir, callback): the calls of callback(dir, file), in   *)
(* order                                                                      *)
RECURSIVE readDirRecursively(_, _)
readDirRecursively(f, dir) ==
    IF ~Exists(f, dir) THEN <<>>
    ELSE LET entries == readdirSync(f, dir)
             visit[i \in 0..Len(entries)] ==
                 IF i = 0 THEN <<>>
                 ELSE visit[i - 1]
                      \o (IF f[entries[i]].type = "dir"
                          THEN readDirRecursively(f, entries[i])
                          ELSE <<<<dir, entries[i]>>>>)
         IN  visit[Len(entries)]

(* this._manager.getTempDir(): path.join(os.tmpdir(), ".zkit", uuid()) *)
getTempDir(uuid) == <<"tmp", ".zkit", uuid>>

(* this._getDir("artifact"): path.join(artifactsDir, circuitRelativePath) *)
ArtifactDir(k) == <<"artifacts", k.circuitName \o ".circom">>

(* this._getDir("verifier"): path.join(verifiersDir, circuitRelativePath,     *)
(* ".."), for a circuit at the top of the circuits directory                  *)
VerifierDir(k) == <<"contracts", "verifiers">>

(* this._getFile(fileType, temp): no temp is the empty path *)
_getFile(k, fileType, temp) ==
    LET circuitId == k.circuitName
        artifactDir == IF temp = <<>> THEN ArtifactDir(k) ELSE temp
        verifierDir == IF temp = <<>> THEN VerifierDir(k) ELSE temp
        found(path) == [ok |-> TRUE, error |-> <<>>, path |-> path]
    IN  CASE fileType = "r1cs" -> found(artifactDir \o <<circuitId \o ".r1cs">>)
          [] fileType = "zkey" -> found(artifactDir \o <<circuitId \o ".zkey">>)
          [] fileType = "vkey" -> found(artifactDir \o <<circuitId \o ".vkey.json">>)
          [] fileType = "sym" -> found(artifactDir \o <<circuitId \o ".sym">>)
          [] fileType = "json" -> found(artifactDir \o <<circuitId \o ".json">>)
          [] fileType = "wasm"
             -> found(artifactDir \o <<circuitId \o "_js", circuitId \o ".wasm">>)
          [] fileType = "sol" -> found(verifierDir \o <<circuitId \o "Verifier.sol">>)
          [] OTHER -> [ok |-> FALSE, error |-> <<"Ambiguous file type: ", fileType, ".">>,
                       path |-> <<>>]

(* What the compiler writes to outDir for the arguments of _getCompileArgs:  *)
(* --r1cs and --wasm, and --sym, --json and --c as the options ask            *)
circom(f, k, options, outDir, source, constraints) ==
    LET circuitId == k.circuitName
        dirs == {outDir \o <<circuitId \o "_js">>}
                \cup (IF "c" \in options THEN {outDir \o <<circuitId \o "_cpp">>} ELSE {})
        files == {outDir \o <<circuitId \o ".r1cs">>,
                  outDir \o <<circuitId \o "_js", circuitId \o ".wasm">>}
                 \cup (IF "sym" \in options THEN {outDir \o <<circuitId \o ".sym">>} ELSE {})
                 \cup (IF "json" \in options
                       THEN {outDir \o <<circuitId \o "_constraints.json">>} ELSE {})
                 \cup (IF "c" \in options
                       THEN {outDir \o <<circuitId \o "_cpp", circuitId \o ".cpp">>} ELSE {})
    IN  [q \in DOMAIN f \cup dirs \cup files |->
            IF q = outDir \o <<circuitId \o ".r1cs">> THEN R1cs(source, constraints)
            ELSE IF q \in files THEN File(source)
            ELSE IF q \in dirs THEN Directory
            ELSE f[q]]

(* this._compile(options, outDir): the compiler runs, or fails *)
_compile(f, k, options, outDir, source, constraints, fails) ==
    IF ~fails
    THEN [ok |-> TRUE, error |-> <<>>,
          fs |-> circom(f, k, options, outDir, source, constraints)]
    ELSE IF "quiet" \in options
    THEN [ok |-> FALSE,
          error |-> <<"Compilation failed with an unknown error. Consider passing \"quiet=false\" flag to see the compilation error.">>,
          fs |-> f]
    ELSE [ok |-> FALSE, error |-> <<"Compilation failed.">>, fs |-> f]

(* this._getConstraints(outDir): fs.openSync of the r1cs file throws when    *)
(* there is none; the r1cs file the compiler writes has its header section,  *)
(* from which the number of constraints is read                               *)
_getConstraints(f, k, outDir) ==
    LET r1csFile == _getFile(k, "r1cs", outDir).path
    IN  IF Exists(f, r1csFile)
        THEN [ok |-> TRUE, error |-> <<>>, constraints |-> f[r1csFile].constraints]
        ELSE [ok |-> FALSE, error |-> <<"ENOENT: no such file or directory, open">> \o r1csFile,
              constraints |-> 0]

(* Math.max(Math.ceil(Math.log2(minConstraints)), 8) *)
ptauId(minConstraints) ==
    LET ceilLog2 == IF minConstraints <= 1 THEN 0
                    ELSE CHOOSE n \in 1..64 : 2^(n - 1) < minConstraints /\ minConstraints <= 2^n
    IN  IF ceilLog2 > 8 THEN ceilLog2 ELSE 8

(* this._manager.fetchPtauFile(minConstraints): it throws for a circuit of    *)
(* more than 2^20 constraints; _searchPtau finds a ptau file that supports    *)
(* the circuit, or gives the url of one, and _downloadPtau throws when the    *)
(* download is not allowed or does not succeed                                *)
fetchPtauFile(minConstraints, ptau) ==
    IF ptauId(minConstraints) > 20
    THEN [ok |-> FALSE,
          error |-> <<"Circuit has too many constraints. The maximum number of constraints is 2^20. Consider passing \"ptauDir=PATH_TO_LOCAL_DIR\".">>]
    ELSE IF ptau = "cancelled"
    THEN [ok |-> FALSE,
          error |-> <<"Download is cancelled. Allow download or consider passing \"ptauDir=PATH_TO_LOCAL_DIR\" to the existing ptau files">>]
    ELSE IF ptau = "failed"
    THEN [ok |-> FALSE, error |-> <<"Something went wrong while downloading the ptau file.">>]
    ELSE [ok |-> TRUE, error |-> <<>>]

(* snarkjs.zKey.newZKey(r1csFile, ptauFile, zKeyFile), awaited by             *)
(* _generateZKey: the zkey of the r1cs, or it fails                           *)
_generateZKey(f, k, outDir, fails) ==
    LET r1csFile == _getFile(k, "r1cs", outDir).path
        zKeyFile == _getFile(k, "zkey", outDir).path
    IN  IF fails \/ ~Exists(f, r1csFile)
        THEN [ok |-> FALSE, error |-> <<"snarkjs.zKey.newZKey">>, fs |-> f]
        ELSE [ok |-> TRUE, error |-> <<>>,
              fs |-> WriteFile(f, zKeyFile, File(f[r1csFile].source))]

(* snarkjs.zKey.exportVerificationKey(zKeyFile), awaited by _generateVKey,   *)
(* and fs.writeFileSync(vKeyFile, ...): the vkey of the zkey, or it fails     *)
_generateVKey(f, k, outDir, fails) ==
    LET zKeyFile == _getFile(k, "zkey", outDir).path
        vKeyFile == _getFile(k, "vkey", outDir).path
    IN  IF fails \/ ~Exists(f, zKeyFile)
        THEN [ok |-> FALSE, error |-> <<"snarkjs.zKey.exportVerificationKey">>, fs |-> f]
        ELSE IF ~Exists(f, outDir)
        THEN [ok |-> FALSE, error |-> <<"ENOENT: no such file or directory, open">> \o vKeyFile,
              fs |-> f]
        ELSE [ok |-> TRUE, error |-> <<>>,
              fs |-> WriteFile(f, vKeyFile, File(f[zKeyFile].source))]

(* The callback of _moveFromTempDirToOutDir on each file found: the           *)
(* directory of the copy is made unless it exists, and the file is copied.    *)
(* mkdirSync is not recursive here: it throws when the directory above is     *)
(* missing, and what was copied before stays copied                           *)
RECURSIVE CopyEach(_, _, _, _)
CopyEach(f, tempDir, outDir, found) ==
    IF found = <<>> THEN [ok |-> TRUE, error |-> <<>>, fs |-> f]
    ELSE LET dir == Head(found)[1]
             file == Head(found)[2]
             correspondingOutDir == outDir \o relative(tempDir, dir)
             correspondingOutFile == outDir \o relative(tempDir, file)
             made == IF Exists(f, correspondingOutDir)
                     THEN [ok |-> TRUE, error |-> <<>>, fs |-> f]
                     ELSE mkdirSync(f, correspondingOutDir)
         IN  IF ~made.ok THEN made
             ELSE CopyEach(WriteFile(made.fs, correspondingOutFile, f[file]),
                           tempDir, outDir, Tail(found))

(* this._moveFromTempDirToOutDir(tempDir, outDir): outDir is removed and     *)
(* made anew, then every file of tempDir is copied to the same relative path *)
(* in outDir                                                                  *)
_moveFromTempDirToOutDir(f, tempDir, outDir) ==
    LET cleared == mkdirRecursive(RemoveDir(f, outDir), outDir)
    IN  CopyEach(cleared, tempDir, outDir, readDirRecursively(cleared, tempDir))

(* A step of compile throws: the finally block removes the temporary         *)
(* directory and compile rejects                                              *)
compileFailed(f, p, error) ==
    [fs |-> RemoveDir(f, p.call.path), p |-> Settled(Thrown(p.call, error))]

(* A compile that lets the compiler and the library write to the artifacts   *)
(* directory                                                                  *)
compileCalledInPlace(f, k, call, options, source, constraints, uuid) ==
    [fs |-> mkdirRecursive(f, ArtifactDir(k)),
     p |-> Suspended("_compile", "",
                     [call EXCEPT !.options = options, !.source = source,
                                  !.constraints = constraints, !.path = ArtifactDir(k)])]

(* compile(options) up to its first await: the temporary directory is made   *)
(* and the compiler is called                                                 *)
compileCalled(f, k, call, options, source, constraints, uuid) ==
    LET tempDir == getTempDir(uuid)
    IN  [fs |-> mkdirRecursive(f, tempDir),
         p |-> Suspended("_compile", "",
                         [call EXCEPT !.options = options, !.source = source,
                                      !.constraints = constraints, !.path = tempDir])]

(* The compiler has run.  _generateZKey is called: _getConstraints reads the *)
(* r1cs file and is awaited                                                   *)
compileCompiled(f, k, p, fails) ==
    LET tempDir == p.call.path
        r == _compile(f, k, p.call.options, tempDir, p.call.source, p.call.constraints,
                      fails)
        constraints == _getConstraints(r.fs, k, tempDir)
    IN  IF ~r.ok THEN compileFailed(r.fs, p, r.error)
        ELSE IF ~constraints.ok THEN compileFailed(r.fs, p, constraints.error)
        ELSE [fs |-> r.fs, p |-> [p EXCEPT !.pc = "_getConstraints"]]

(* The constraints are there and fetchPtauFile is called with them.           *)
(* fetchPtauFile has settled: it has thrown, and compile fails, or the ptau   *)
(* file is there and snarkjs.zKey.newZKey is called.  The prompt and the       *)
(* download that fetchPtauFile awaits change none of the files of the model    *)
compileFetched(f, k, p, ptau) ==
    LET constraints == _getConstraints(f, k, p.call.path)
        fetched == fetchPtauFile(constraints.constraints, ptau)
    IN  IF p.pc = "_getConstraints"
        THEN [fs |-> f, p |-> [p EXCEPT !.pc = "fetchPtauFile"]]
        ELSE IF ~fetched.ok THEN compileFailed(f, p, fetched.error)
        ELSE [fs |-> f, p |-> [p EXCEPT !.pc = "snarkjs.zKey.newZKey"]]

(* snarkjs.zKey.newZKey has run.  _generateVKey is called, which calls       *)
(* snarkjs.zKey.exportVerificationKey                                         *)
compileZKey(f, k, p, fails) ==
    LET r == _generateZKey(f, k, p.call.path, fails)
    IN  IF ~r.ok THEN compileFailed(r.fs, p, r.error)
        ELSE [fs |-> r.fs, p |-> [p EXCEPT !.pc = "snarkjs.zKey.exportVerificationKey"]]

(* snarkjs.zKey.exportVerificationKey has run: the vkey is written, the      *)
(* artifacts are moved, the finally block removes the temporary directory    *)
(* and compile returns                                                        *)
compileVKey(f, k, p, fails) ==
    LET r == _generateVKey(f, k, p.call.path, fails)
        moved == _moveFromTempDirToOutDir(r.fs, p.call.path, ArtifactDir(k))
    IN  IF ~r.ok THEN compileFailed(r.fs, p, r.error)
        ELSE IF ~moved.ok THEN compileFailed(moved.fs, p, moved.error)
        ELSE [fs |-> RemoveDir(moved.fs, p.call.path), p |-> Settled(p.call)]

(* this._mustGetFile(fileType): the path of the file, which must exist *)
_mustGetFile(f, k, fileType) ==
    LET file == _getFile(k, fileType, <<>>)
    IN  IF file.ok /\ ~Exists(f, file.path)
        THEN [ok |-> FALSE, error |-> <<"Expected the file to exist">> \o file.path,
              path |-> file.path]
        ELSE file

(* createVerifier(): no step of it is awaited.  The temporary directory is    *)
(* made, the verifier is rendered from the vkey file of the artifacts         *)
(* directory and written to the temporary directory, the verifiers directory  *)
(* is removed and made anew with the verifier in it, and the finally block    *)
(* removes the temporary directory                                            *)
createVerifier(f, k, call, uuid) ==
    LET tempDir == getTempDir(uuid)
        made == mkdirRecursive(f, tempDir)
        vKeyFile == _mustGetFile(made, k, "vkey")
        verifierFile == _getFile(k, "sol", tempDir).path
        written == WriteFile(made, verifierFile, File(made[vKeyFile.path].source))
        moved == _moveFromTempDirToOutDir(written, tempDir, VerifierDir(k))
        c0 == [call EXCEPT !.path = tempDir]
    IN  IF ~vKeyFile.ok
        THEN [fs |-> RemoveDir(made, tempDir), p |-> Settled(Thrown(c0, vKeyFile.error))]
        ELSE IF ~moved.ok
        THEN [fs |-> RemoveDir(moved.fs, tempDir), p |-> Settled(Thrown(c0, moved.error))]
        ELSE [fs |-> RemoveDir(moved.fs, tempDir), p |-> Settled(c0)]

InitCompile ==
    /\ cfg \in [Instances ->
                  [api : {"compiler"}, circuitName : CircuitNames, sym : {SymMultiplier},
                   prime : {65521}, artifacts : {AllArtifacts}, caller : Callers]]
    /\ fs = NoFiles
    /\ heap = NoFiles
    /\ ret = NoCall
    /\ pending = NoPending

(* The options and the sources of a caller's compiles *)
CompileOptionsOf(k) ==
    IF k.caller = "awaits"
    THEN {options \in CompileOptions :
             options \in {{}, {"sym"}, {"json", "c"}, {"sym", "json", "c", "quiet"}}}
    ELSE {{"sym"}, {"sym", "c", "quiet"}}

SourcesOf(k) == IF k.caller = "awaits" THEN Sources ELSE {1, 2}

ConstraintCountsOf(k) == IF k.caller = "awaits" THEN ConstraintCounts ELSE {2^20}

(* uuid(): the name of the temporary directory of a call is that of no other *)
(* call in flight                                                             *)
CallCompile(t, c) ==
    /\ MayCall(t, c, "compiler")
    /\ \E options \in CompileOptionsOf(cfg[c]), source \in SourcesOf(cfg[c]),
          constraints \in ConstraintCountsOf(cfg[c]) :
          Step(t, compileCalled(fs, cfg[c], Call("compile", c), options, source,
                                constraints, "uuid-" \o ToString(t)))

CallCreateVerifier(t, c) ==
    /\ MayCall(t, c, "compiler")
    /\ Step(t, createVerifier(fs, cfg[c], Call("createVerifier", c),
                              "uuid-" \o ToString(t)))

CompileCompiled(t, c) ==
    /\ SuspendedAt(t, c, "_compile")
    /\ \E fails \in BOOLEAN : Step(t, compileCompiled(fs, cfg[c], pending[t], fails))

CompileFetched(t, c) ==
    /\ \/ SuspendedAt(t, c, "_getConstraints")
       \/ SuspendedAt(t, c, "fetchPtauFile")
    /\ \E ptau \in PtauOutcomes : Step(t, compileFetched(fs, cfg[c], pending[t], ptau))

CompileZKey(t, c) ==
    /\ SuspendedAt(t, c, "snarkjs.zKey.newZKey")
    /\ \E fails \in BOOLEAN : Step(t, compileZKey(fs, cfg[c], pending[t], fails))

CompileVKey(t, c) ==
    /\ SuspendedAt(t, c, "snarkjs.zKey.exportVerificationKey")
    /\ \E fails \in BOOLEAN : Step(t, compileVKey(fs, cfg[c], pending[t], fails))

NextCompile ==
    \E t \in Tasks, c \in Instances :
        \/ CallCompile(t, c)
        \/ CallCreateVerifier(t, c)
        \/ CompileCompiled(t, c)
        \/ CompileFetched(t, c)
        \/ CompileZKey(t, c)
        \/ CompileVKey(t, c)

SpecCompile == InitCompile /\ [][NextCompile]_vars

---------------------------------------------------------------------------
(* Properties *)

(* The table has a line of four fields for the name, with a witness index     *)
(* that is not negative                                                       *)
IsResolved(lines, name) ==
    \E i \in DOMAIN lines :
        /\ Len(lines[i]) = 4
        /\ lines[i][4] = name
        /\ lines[i][2].isInteger
        /\ lines[i][2].value >= 0

(* The witness index of a signal name the table resolves: that of its last   *)
(* line of four fields with a non-negative witness index                      *)
ResolvedIndex(lines, name) ==
    LET js == {j \in DOMAIN lines :
                  /\ Len(lines[j]) = 4
                  /\ lines[j][4] = name
                  /\ lines[j][2].isInteger
                  /\ lines[j][2].value >= 0}
    IN  lines[CHOOSE j \in js : \A i \in js : i <= j][2].value

(* The names of `keys`, in their order, for which the table has no line of    *)
(* four fields with a non-negative witness index                              *)
Unresolved(lines, keys) ==
    SelectNames(keys, {n \in Range(keys) : ~IsResolved(lines, n)})

(* The unresolved names that are no member of Object.prototype *)
NotFound(lines, keys) ==
    SelectNames(Unresolved(lines, keys), Range(keys) \ ObjectPrototype)

(* The override names an error names, in the order it names them *)
ErrorNames(error) == SelectNames(error, OverrideNames)

(* The table without the lines of signals that were optimized away *)
Stripped(lines) ==
    SelectSeq(lines, LAMBDA l : ~(Len(l) = 4 /\ l[2].isInteger /\ l[2].value < 0))

(* The last call to settle was `op` on instance c, and no other call was in   *)
(* flight between the moment it was made and the moment it settled            *)
Returned(c, op) == ret.inst = c /\ ret.op = op /\ ret.alone

(* The last call, on instance c, got as far as resolving its override names,  *)
(* one name at a time: modifyWitnessArray(witness, signalIndexes, overrides)   *)
(* of the revision that throws for a name it does not find, called by itself   *)
(* or by modifyWitness                                                         *)
ResolvesOneByOne(c) ==
    /\ ret.inst = c
    /\ ret.hasOverrides
    /\ ret.alone
    /\ \/ ret.op = "modifyWitnessArraySym"
       \/ /\ cfg[c].api = "tracker"
          /\ ret.op = "modifyWitness"
          /\ ret.pre \in {"Original", "Modified"}
          /\ HasArtifact(cfg[c], "sym")

(* The last call, on instance c, was a calculateWitness or a generateProof    *)
(* with overrides that got as far as resolving their names                     *)
ResolvesForOverrides(c) ==
    /\ ret.inst = c
    /\ cfg[c].api = "oneshot"
    /\ ret.hasOverrides
    /\ ret.alone
    /\ \/ ret.op = "calculateWitness"
       \/ ret.op = "generateProof" /\ HasArtifact(cfg[c], "zkey")
    /\ HasArtifact(cfg[c], "wasm")
    /\ HasArtifact(cfg[c], "sym")

(* The witness file a proof is generated from when none is passed *)
CurrentWitness(f, k) ==
    IF Exists(f, getModifiedWitnessPath(k))
    THEN getModifiedWitnessPath(k)
    ELSE getTemporaryWitnessPath(k)

(* C1: whenever override names are resolved against a symbol table and some   *)
(* of them have no entry with a non-negative witness index, the operation      *)
(* fails with a single error that names every unresolved name, in the order    *)
(* the caller supplied them, and no resolvable name.                           *)
C1_EveryResolverListsAllUnresolved ==
    \A c \in Instances :
        LET unresolved == Unresolved(cfg[c].sym, OverrideKeys(ret.overrides))
        IN  /\ ret.inst = c
            /\ \/ ret.op = "checkWitnessOverrides"
               \/ ResolvesOneByOne(c)
               \/ ResolvesForOverrides(c)
            /\ unresolved # <<>>
            => /\ ~ret.ok
               /\ ErrorNames(ret.error) = unresolved

(* C2: a requested name that the symbol table holds only with a negative      *)
(* witness index is reported as not found exactly as a name the table does    *)
(* not hold: the outcome equals the outcome on the table without that line,   *)
(* the error is the not-found error naming it, and no index is returned.      *)
C2_OptimizedAwayIsNotFound ==
    \A c \in Instances :
        LET keys == OverrideKeys(ret.overrides)
            gone == {n \in Range(keys) :
                        /\ \E i \in DOMAIN cfg[c].sym :
                              Len(cfg[c].sym[i]) = 4 /\ cfg[c].sym[i][4] = n
                        /\ n \in Range(Unresolved(cfg[c].sym, keys))}
            absent == checkWitnessOverrides(Stripped(cfg[c].sym), ret.overrides)
        IN  /\ loadSignalToIndexMap(cfg[c].sym) = loadSignalToIndexMap(Stripped(cfg[c].sym))
            /\ ret.inst = c /\ ret.op = "checkWitnessOverrides"
               => /\ ret.ok = absent.ok
                  /\ ret.error = absent.error
                  /\ gone \cap DOMAIN ret.indexes = {}
                  /\ gone # {} => ~ret.ok
                  /\ gone # {} => gone \subseteq Range(ErrorNames(ret.error))
            /\ ResolvesOneByOne(c) /\ gone # {}
               => /\ ~ret.ok
                  /\ ret.error = <<"Signal ", Head(NotFound(Stripped(cfg[c].sym), keys)),
                                   " not found in .sym file">>
            /\ ResolvesForOverrides(c) /\ gone # {}
               => /\ ~ret.ok
                  /\ gone \subseteq Range(ErrorNames(ret.error))
                  /\ ret.error = <<"Signals not found in .sym file: ">>
                                     \o Unresolved(Stripped(cfg[c].sym), keys)

(* checkWitnessOverrides was asked for the signal that was optimized away *)
C2_Witness ==
    /\ ret.op = "checkWitnessOverrides"
    /\ cfg[ret.inst].sym = SymOptimized
    /\ OverrideKeys(ret.overrides) = <<"main.a", "main.isEqual">>
    /\ ret.error = <<"Signals not found in .sym file: ", "main.isEqual">>

(* C3, as stated: after the override engine returns, the vector the caller    *)
(* passed in has the elements it had before the call and the returned vector  *)
(* is a separate array.                                                       *)
C3_InputVectorUntouched ==
    ret.op \in {"modifyWitnessArray", "modifyWitnessArraySym"} /\ ret.ok
    => heap[ret.argRef] = ret.argWitness /\ ret.ref # ret.argRef

(* C3, amended: the override engine stores the overrides in the array it is   *)
(* given and returns that array: afterwards the caller's array holds each     *)
(* override's value at the witness position of its signal, every other        *)
(* position is as it was, and no other array exists.                          *)
C3_OverridesStoredInPlace ==
    \A c \in Instances :
        ret.inst = c /\ ret.op \in {"modifyWitnessArray", "modifyWitnessArraySym"} /\ ret.ok
        => LET indexes == loadSignalToIndexMap(cfg[c].sym)
               resolved == {i \in DOMAIN ret.overrides : ret.overrides[i][1] \in DOMAIN indexes}
               target == {indexes[ret.overrides[i][1]].n + 1 : i \in resolved}
           IN  /\ ret.ref = ret.argRef
               /\ DOMAIN heap = {ret.argRef}
               /\ ret.witness = heap[ret.argRef]
               /\ Len(heap[ret.argRef]) = Len(ret.argWitness)
               /\ \A i \in resolved :
                     heap[ret.argRef][indexes[ret.overrides[i][1]].n + 1] = ret.overrides[i][2]
               /\ \A pos \in DOMAIN ret.argWitness \ target :
                     heap[ret.argRef][pos] = ret.argWitness[pos]

(* modifyWitnessArray changed the array it was given *)
C3_Witness ==
    /\ ret.op = "modifyWitnessArray"
    /\ ret.ref = ret.argRef
    /\ ret.argWitness[2] = 200
    /\ heap[ret.argRef][2] = 150

(* C4, as stated: an operation of the class that is given overrides never     *)
(* writes the overridden vector to the original witness file, only to a       *)
(* separate file.                                                             *)
C4_OverridesNeverWrittenToOriginal ==
    \A c \in Instances :
        /\ ret.inst = c
        /\ cfg[c].api \in {"tracker", "oneshot"}
        /\ ret.hasOverrides
        => \A i \in DOMAIN ret.wrote : ret.wrote[i][1] # getTemporaryWitnessPath(cfg[c])

(* C4, amended: in the class that has modifyWitness and resetWitness, an      *)
(* overridden vector is written only to the modified file, the original file  *)
(* is never removed, and its contents change only in the steps of             *)
(* snarkjs.wtns.calculate, which empties the file and then fills it with the  *)
(* witness it has calculated.  In the class whose calculateWitness and        *)
(* generateProof take the overrides, calculateWitness writes no overridden    *)
(* vector to any file, and generateProof with overrides writes the overridden *)
(* vector over the witness file it has just calculated, the only witness file *)
(* there is, proves from it and removes it.                                    *)
C4_OriginalOnlyCalculated ==
    /\ [][\A c \in Instances :
             cfg[c].api = "tracker"
             => LET orig == getTemporaryWitnessPath(cfg[c])
                IN  /\ \A i \in DOMAIN ret'.wrote :
                          /\ ret'.wrote[i][1] = getModifiedWitnessPath(cfg[c])
                          /\ ret'.wrote[i][1] # orig
                    /\ Exists(fs, orig) => Exists(fs', orig)
                    /\ Exists(fs', orig) /\ (~Exists(fs, orig) \/ fs'[orig] # fs[orig])
                       => \E t \in Tasks :
                             /\ pending'[t] # pending[t]
                             /\ pending[t].call.hasInputs
                             /\ \/ /\ pending[t].pc = "wtns.calculate"
                                   /\ fs'[orig] = EmptyFile
                                \/ /\ pending[t].pc = "wtns.calculate:close"
                                   /\ fs'[orig] = wtnsCalculate(pending[t].call.inputs,
                                                                cfg[c].prime)]_vars
    /\ [][\A c \in Instances :
             cfg[c].api = "oneshot"
             => LET file == getTemporaryWitnessPath(cfg[c])
                IN  /\ DOMAIN fs' \subseteq {file}
                    /\ Exists(fs', file) /\ (~Exists(fs, file) \/ fs'[file] # fs[file])
                       => \E t \in Tasks :
                             /\ pending'[t].pc # pending[t].pc
                             /\ \/ /\ pending[t].pc \in {"wtns.calculate", "createBinFile"}
                                   /\ fs'[file] = EmptyFile
                                \/ /\ pending[t].pc = "wtns.calculate:close"
                                   /\ fs'[file] = wtnsCalculate(pending[t].call.inputs,
                                                                cfg[c].prime)
                                \/ /\ pending[t].pc = "fd.close"
                                   /\ pending[t].call.op = "generateProof"
                                   /\ pending[t].call.hasOverrides
                                   /\ exportJson(fs'[file]) = pending[t].witness
                             /\ pending[t].pc \in {"createBinFile", "fd.close"}
                                => /\ pending[t].call.op = "generateProof"
                                   /\ pending[t].call.hasOverrides
                    /\ Exists(fs, file) /\ ~Exists(fs', file) => ret'.op = "generateProof"]_vars
    /\ [](\A c \in Instances :
             ret.inst = c /\ cfg[c].api = "oneshot" /\ ret.alone
             => LET file == getTemporaryWitnessPath(cfg[c])
                    base == WitnessOf(ret.inputs, cfg[c].prime)
                IN  /\ ret.op = "calculateWitness"
                       => /\ ret.wrote = <<>>
                          /\ ret.ok => exportJson(fs[file]) = base
                    /\ ret.op = "generateProof" /\ ret.ok
                       => /\ ~Exists(fs, file)
                          /\ ~ret.hasOverrides => ret.wrote = <<>>
                          /\ ret.hasOverrides
                             => /\ Len(ret.wrote) = 1
                                /\ ret.wrote[1][1] = file
                                /\ ret.proof = implementerGenerateProof(
                                       writeWitnessFile(ret.wrote[1][2], cfg[c].prime)))

(* generateProof with an override of main.out wrote the overridden vector     *)
(* over the witness file it had calculated, and removed the file               *)
C4_Witness ==
    /\ ret.op = "generateProof" /\ ret.ok /\ ret.alone
    /\ cfg[ret.inst].api = "oneshot"
    /\ ret.inputs = <<20, 10>>
    /\ ret.overrides = << <<"main.out", 150>> >>
    /\ ret.wrote = <<<<getTemporaryWitnessPath(cfg[ret.inst]), <<1, 150, 20, 10>>>>>>
    /\ ~Exists(fs, getTemporaryWitnessPath(cfg[ret.inst]))

(* C5, as stated: a modifyWitness or modifyWitnessArray call that fails       *)
(* because an override name is unresolvable changes no element of a witness   *)
(* vector and creates, overwrites or deletes no witness file, so the witness  *)
(* state after the call is the state before it.                               *)
C5_UnresolvableFailsAtomically ==
    /\ [][\A c \in Instances :
             /\ ret'.inst = c
             /\ ret'.op = "modifyWitnessArraySym"
             /\ ~ret'.ok
             /\ ErrorNames(ret'.error) # <<>>
             => /\ fs' = fs
                /\ heap' = heap]_vars
    /\ [](\A c \in Instances :
             /\ Returned(c, "modifyWitness")
             /\ ~ret.ok
             /\ ErrorNames(ret.error) # <<>>
             => /\ fs = ret.before
                /\ WitnessState(fs, cfg[c]) = ret.pre)

(* The vector `base` with the overrides at the witness positions of their     *)
(* signals                                                                     *)
Overridden(base, lines, overrides) ==
    [pos \in DOMAIN base |->
        LET named == {i \in DOMAIN overrides :
                         /\ IsResolved(lines, overrides[i][1])
                         /\ ResolvedIndex(lines, overrides[i][1]) + 1 = pos}
        IN  IF named = {} THEN base[pos]
            ELSE overrides[CHOOSE i \in named : \A j \in named : j <= i][2]]

(* C6: a proof is generated from the witness that is current at the time of   *)
(* the call, no path passed: the modified file if it exists, else the         *)
(* original; so after a successful override the next proof's public signals   *)
(* are those of the overridden vector and after a reset those of the original *)
(* witness; the proof of generateProof(inputs, witnessOverrides) is that of   *)
(* the witness of the inputs with the overrides of the call at the witness    *)
(* positions of their signals.                                                *)
C6_ProofFromCurrentWitness ==
    \A c \in Instances :
        Returned(c, "generateProof") /\ ret.ok
        => IF cfg[c].api = "tracker"
           THEN /\ ret.path = CurrentWitness(fs, cfg[c])
                /\ ret.pre # "NoWitness"
                   => ret.path = CurrentWitness(ret.before, cfg[c]) /\ fs = ret.before
                /\ Exists(fs, ret.path)
                /\ ret.proof.publicSignals = <<exportJson(fs[ret.path])[2]>>
                /\ ret.last.op = "modifyWitness" /\ ret.last.ok /\ ret.last.alone
                   => /\ ret.path = getModifiedWitnessPath(cfg[c])
                      /\ ret.proof.publicSignals = <<ret.last.witness[2]>>
                /\ ret.last.op = "resetWitness" /\ ret.last.alone
                   => /\ ret.path = getTemporaryWitnessPath(cfg[c])
                      /\ ret.proof.publicSignals =
                            <<exportJson(fs[getTemporaryWitnessPath(cfg[c])])[2]>>
           ELSE LET base == WitnessOf(ret.inputs, cfg[c].prime)
                    current == IF ret.hasOverrides
                               THEN Overridden(base, cfg[c].sym, ret.overrides)
                               ELSE base
                IN  /\ ret.proof.publicSignals = <<current[2]>>
                    /\ ret.proof.valid
                          = (current[2] = (current[3] * current[4]) % cfg[c].prime)
                    /\ \A i \in DOMAIN ret.overrides :
                          /\ IsResolved(cfg[c].sym, ret.overrides[i][1])
                          /\ ret.overrides[i][1] = "main.out"
                             => ret.proof.publicSignals = <<ret.overrides[i][2]>>

(* generateProof(inputs, witnessOverrides) was given a = 20, b = 10 and an    *)
(* override of main.out, and its proof shows the overridden value, not 200    *)
C6_Witness ==
    /\ ret.op = "generateProof" /\ ret.ok /\ ret.alone
    /\ cfg[ret.inst].api = "oneshot"
    /\ ret.inputs = <<20, 10>>
    /\ \E i \in DOMAIN ret.overrides : ret.overrides[i] = <<"main.out", 150>>
    /\ ret.proof.publicSignals = <<150>>
    /\ ~ret.proof.valid

(* C7: getWitnessFilePath returns the modified path whenever the modified     *)
(* file exists, and the original path only when the modified file does not    *)
(* exist and the original file does.                                          *)
C7_ModifiedPathPreferred ==
    \A c \in Instances :
        Returned(c, "getWitnessFilePath")
        => /\ Exists(ret.before, getModifiedWitnessPath(cfg[c]))
              => ret.ok /\ ret.path = getModifiedWitnessPath(cfg[c]) /\ fs = ret.before
           /\ ret.ok /\ ret.path = getTemporaryWitnessPath(cfg[c])
              => /\ ~Exists(ret.before, getModifiedWitnessPath(cfg[c]))
                 /\ ~Exists(fs, getModifiedWitnessPath(cfg[c]))
                 /\ Exists(fs, getTemporaryWitnessPath(cfg[c]))
           /\ ret.pre = "Original"
              => ret.ok /\ ret.path = getTemporaryWitnessPath(cfg[c]) /\ fs = ret.before

(* The query was made with both files in place *)
C7_Witness ==
    /\ ret.op = "getWitnessFilePath" /\ ret.ok /\ ret.alone
    /\ ret.pre = "Modified"
    /\ Exists(fs, getTemporaryWitnessPath(cfg[ret.inst]))
    /\ ret.path = getModifiedWitnessPath(cfg[ret.inst])

(* C8: a successful modifyWitness in state Original leaves state Modified:    *)
(* the original file is as it was, the modified file holds the overridden     *)
(* vector, and the current witness is the modified file.                      *)
C8_OriginalToModified ==
    \A c \in Instances :
        /\ Returned(c, "modifyWitness")
        /\ cfg[c].api = "tracker"
        /\ ret.pre = "Original"
        /\ ret.ok
        => /\ WitnessState(fs, cfg[c]) = "Modified"
           /\ fs[getTemporaryWitnessPath(cfg[c])] = ret.before[getTemporaryWitnessPath(cfg[c])]
           /\ exportJson(fs[getModifiedWitnessPath(cfg[c])]) = ret.witness
           /\ CurrentWitness(fs, cfg[c]) = getModifiedWitnessPath(cfg[c])
           /\ getWitnessFilePath(fs, cfg[c], NoCall, FALSE, <<>>).ret.path
                 = getModifiedWitnessPath(cfg[c])

(* The first override after a calculation succeeded *)
C8_Witness ==
    /\ ret.op = "modifyWitness" /\ ret.ok /\ ret.alone
    /\ ret.pre = "Original"
    /\ WitnessState(fs, cfg[ret.inst]) = "Modified"

(* C9: a successful modifyWitness in state Modified overwrites the modified   *)
(* file and creates no file; the files of the circuit are at all times among  *)
(* the original and the one modified file.                                    *)
C9_ModifiedOverwrittenInPlace ==
    \A c \in Instances :
        cfg[c].api = "tracker"
        => /\ DOMAIN fs \subseteq {getTemporaryWitnessPath(cfg[c]), getModifiedWitnessPath(cfg[c])}
           /\ Returned(c, "modifyWitness") /\ ret.pre = "Modified" /\ ret.ok
              => /\ DOMAIN fs = DOMAIN ret.before
                 /\ fs[getTemporaryWitnessPath(cfg[c])]
                       = ret.before[getTemporaryWitnessPath(cfg[c])]
                 /\ exportJson(fs[getModifiedWitnessPath(cfg[c])]) = ret.witness

(* A second override replaced the vector of the first *)
C9_Witness ==
    /\ ret.op = "modifyWitness" /\ ret.ok /\ ret.alone
    /\ ret.pre = "Modified"
    /\ OverrideKeys(ret.overrides) = <<"main.a">>
    /\ exportJson(ret.before[getModifiedWitnessPath(cfg[ret.inst])])[2] = 150
    /\ Cardinality(DOMAIN fs) = 2
    /\ exportJson(fs[getModifiedWitnessPath(cfg[ret.inst])])[2] = 200

(* C10: resetWitness in state Modified deletes the modified file and leaves   *)
(* the original file as it was: the state is Original and the current         *)
(* witness is the original file.                                              *)
C10_ResetToOriginal ==
    \A c \in Instances :
        /\ Returned(c, "resetWitness")
        /\ cfg[c].api = "tracker"
        /\ ret.pre = "Modified"
        => /\ ret.ok
           /\ ~Exists(fs, getModifiedWitnessPath(cfg[c]))
           /\ Exists(fs, getTemporaryWitnessPath(cfg[c]))
           /\ fs[getTemporaryWitnessPath(cfg[c])] = ret.before[getTemporaryWitnessPath(cfg[c])]
           /\ WitnessState(fs, cfg[c]) = "Original"
           /\ getWitnessFilePath(fs, cfg[c], NoCall, FALSE, <<>>).ret.path
                 = getTemporaryWitnessPath(cfg[c])

(* A reset was made with a modified file in place *)
C10_Witness ==
    /\ ret.op = "resetWitness" /\ ret.alone
    /\ ret.pre = "Modified"
    /\ WitnessState(fs, cfg[ret.inst]) = "Original"

(* C11: resetWitness when no modified witness file exists (state Original or *)
(* NoWitness) raises no error and creates, changes or deletes no file: the    *)
(* state is the state before the call.                                        *)
C11_ResetWithoutModifiedIsNoOp ==
    \A c \in Instances :
        /\ Returned(c, "resetWitness")
        /\ cfg[c].api = "tracker"
        /\ ~Exists(ret.before, getModifiedWitnessPath(cfg[c]))
        => /\ ret.ok /\ ret.error = <<>>
           /\ fs = ret.before
           /\ WitnessState(fs, cfg[c]) = ret.pre
           /\ WitnessState(fs, cfg[c]) \in {"Original", "NoWitness"}

(* A reset was made with only the original witness file in place *)
C11_Witness ==
    /\ ret.op = "resetWitness" /\ ret.ok /\ ret.alone
    /\ ret.pre = "Original"
    /\ WitnessState(fs, cfg[ret.inst]) = "Original"

(* C12: getWitnessFilePath in state NoWitness without inputs fails with       *)
(* "Witness file not found. Inputs are required to calculate witness." and    *)
(* creates no witness file.                                                   *)
C12_NoWitnessNoInputsFails ==
    \A c \in Instances :
        /\ Returned(c, "getWitnessFilePath")
        /\ ret.pre = "NoWitness"
        /\ ~ret.hasInputs
        => /\ ~ret.ok
           /\ ret.error = <<"Witness file not found. Inputs are required to calculate witness.">>
           /\ ret.path = <<>>
           /\ WitnessState(fs, cfg[c]) = "NoWitness"
           /\ fs = NoFiles

(* The query was made without inputs before any witness was calculated *)
C12_Witness ==
    /\ ret.op = "getWitnessFilePath" /\ ret.alone
    /\ ret.pre = "NoWitness"
    /\ ~ret.hasInputs
    /\ ~ret.ok

(* C13: getWitnessFilePath in state NoWitness with inputs calculates the      *)
(* witness of those inputs into the original file, returns the original path  *)
(* and leaves state Original; when the circuit's wasm artifact is missing the *)
(* calculation's error is raised and no file is created.                      *)
C13_NoWitnessWithInputsCalculates ==
    \A c \in Instances :
        /\ Returned(c, "getWitnessFilePath")
        /\ ret.pre = "NoWitness"
        /\ ret.hasInputs
        => IF HasArtifact(cfg[c], "wasm")
           THEN /\ ret.ok
                /\ ret.path = getTemporaryWitnessPath(cfg[c])
                /\ WitnessState(fs, cfg[c]) = "Original"
                /\ exportJson(fs[ret.path]) = WitnessOf(ret.inputs, cfg[c].prime)
           ELSE /\ ~ret.ok
                /\ ret.error = ExpectedFileError("wasm")
                /\ WitnessState(fs, cfg[c]) = "NoWitness"

(* The query calculated the witness of a = 20, b = 30 *)
C13_Witness ==
    /\ ret.op = "getWitnessFilePath" /\ ret.ok /\ ret.alone
    /\ ret.pre = "NoWitness"
    /\ ret.inputs = <<20, 30>>
    /\ WitnessState(fs, cfg[ret.inst]) = "Original"
    /\ exportJson(fs[getTemporaryWitnessPath(cfg[ret.inst])])[2] = 600 % cfg[ret.inst].prime

(* C14: for any path, any prime and any vector of non-negative integers each *)
(* smaller than the prime, the vector read back from the file that            *)
(* writeWitnessFile leaves at the path is the vector written: same length,    *)
(* same elements, same order; the prime read back is the prime written.       *)
C14_CodecRoundTrip ==
    \A c \in Instances :
        /\ ret.inst = c
        /\ ret.op \in {"writeWitnessFilePrime", "writeWitnessFile"}
        /\ ret.alone
        /\ ret.ok
        /\ \A i \in DOMAIN ret.witness : 0 <= ret.witness[i] /\ ret.witness[i] < ret.prime
        => /\ Exists(fs, ret.path)
           /\ readBinFile(fs, ret.path).ok
           /\ Len(exportJson(fs[ret.path])) = Len(ret.witness)
           /\ \A i \in DOMAIN ret.witness : exportJson(fs[ret.path])[i] = ret.witness[i]
           /\ exportJson(fs[ret.path]) = ret.witness
           /\ getWitnessPrime(fs[ret.path]) = ret.prime

(* The vector [1, 600, 20, 30] was written with the prime 65521 *)
C14_Witness ==
    /\ ret.op = "writeWitnessFilePrime" /\ ret.ok /\ ret.alone
    /\ ret.prime = 65521
    /\ ret.witness = <<1, 600, 20, 30>>
    /\ fs[ret.path].n8 = 8
    /\ fs[ret.path].data[2] = <<88, 2, 0, 0, 0, 0, 0, 0>>

(* C15: the overridden witness that modifyWitness persists has the prime and  *)
(* the element count of the original witness it was derived from; whenever no *)
(* call is in flight, a modified file has the prime and the length of the     *)
(* original file.                                                             *)
C15_ModifiedKeepsPrimeAndLength ==
    \A c \in Instances :
        cfg[c].api = "tracker" /\ Quiet /\ Exists(fs, getModifiedWitnessPath(cfg[c]))
        => LET modified == fs[getModifiedWitnessPath(cfg[c])]
               original == fs[getTemporaryWitnessPath(cfg[c])]
           IN  /\ Exists(fs, getTemporaryWitnessPath(cfg[c]))
               /\ getWitnessPrime(modified) = getWitnessPrime(original)
               /\ getWitnessPrime(modified) = cfg[c].prime
               /\ modified.n8 = original.n8
               /\ modified.nWitness = original.nWitness
               /\ Len(exportJson(modified)) = Len(exportJson(original))
               /\ ret.op = "modifyWitness" /\ ret.ok
                  => Len(ret.witness) = Len(exportJson(original))

(* modifyWitness persisted an overridden witness of a circuit over the prime 251 *)
C15_Witness ==
    /\ ret.op = "modifyWitness" /\ ret.ok /\ ret.alone
    /\ cfg[ret.inst].prime = 251
    /\ OverrideKeys(ret.overrides) = <<"main.a", "main.out">>
    /\ getWitnessPrime(fs[getModifiedWitnessPath(cfg[ret.inst])]) = 251
    /\ fs[getModifiedWitnessPath(cfg[ret.inst])].nWitness = 4

(* The overrides of the last call whose names the symbol table resolves *)
ResolvedKeys(c) ==
    {i \in DOMAIN ret.overrides : IsResolved(cfg[c].sym, ret.overrides[i][1])}

(* C16: for a successful override application on the base vector, the result  *)
(* r has r[resolvedIndex[name]] = value for each (name, value) of the         *)
(* overrides whose name has a resolved index and r[i] = base[i] at every      *)
(* position i that is not the resolved index of an override name.             *)
C16_OverridesAtResolvedIndexes ==
    \A c \in Instances :
        /\ ret.inst = c
        /\ ret.alone
        /\ ret.hasOverrides /\ ret.ok
        /\ ret.op \in {"modifyWitnessArray", "modifyWitnessArraySym",
                       "modifyWitness", "calculateWitness"}
        => LET base == CASE ret.op = "modifyWitness" ->
                               exportJson(fs[getTemporaryWitnessPath(cfg[c])])
                         [] ret.op = "calculateWitness" ->
                               WitnessOf(ret.inputs, cfg[c].prime)
                         [] OTHER -> ret.argWitness
               r == ret.witness
               at == [i \in ResolvedKeys(c) |->
                         ResolvedIndex(cfg[c].sym, ret.overrides[i][1]) + 1]
           IN  /\ DOMAIN r = DOMAIN base
               /\ \A i \in DOMAIN at : r[at[i]] = ret.overrides[i][2]
               /\ \A pos \in DOMAIN base \ {at[i] : i \in DOMAIN at} : r[pos] = base[pos]

(* calculateWitness({a: 20, b: 10}, {main.a: 300, main.out: 150}) returned    *)
(* [1, 150, 300, 10]                                                          *)
C16_Witness ==
    /\ ret.op = "calculateWitness" /\ ret.ok /\ ret.alone
    /\ cfg[ret.inst].api = "oneshot"
    /\ ret.inputs = <<20, 10>>
    /\ cfg[ret.inst].prime = 65521
    /\ ret.overrides = << <<"main.a", 300>>, <<"main.out", 150>> >>
    /\ ret.witness = <<1, 150, 300, 10>>

(* Two override sets name no signal in common *)
DistinctKeys(first, second) ==
    Range(OverrideKeys(first)) \cap Range(OverrideKeys(second)) = {}

(* Two successful modifyWitnessArray calls, the second on the array the      *)
(* first returned, with override sets of distinct names, leave the array     *)
(* that one call with both sets leaves                                        *)
ArrayOverridesCompose ==
    [][\A c \in Instances :
          /\ ret'.inst = c /\ ret.inst = c
          /\ ret.ok /\ ret'.ok
          /\ DistinctKeys(ret.overrides, ret'.overrides)
          /\ ret.op = "modifyWitnessArray" /\ ret'.op = "modifyWitnessArray"
          /\ ret'.argRef = ret.ref
          => heap'[ret'.ref] =
                modifyWitnessArray([r \in {ret.argRef} |-> ret.argWitness], ret.argRef,
                                   ret'.indexes, ret.overrides \o ret'.overrides
                                  ).heap[ret.argRef]]_vars

(* The last call was a successful modifyWitness made right after another     *)
(* successful one, and its overrides name no signal whose value that one had  *)
(* changed                                                                    *)
SecondModifyWitness(c) ==
    /\ Returned(c, "modifyWitness")
    /\ cfg[c].api = "tracker"
    /\ ret.ok
    /\ ret.last.op = "modifyWitness" /\ ret.last.ok /\ ret.last.alone
    /\ LET original == exportJson(ret.before[getTemporaryWitnessPath(cfg[c])])
       IN  \A i \in ResolvedKeys(c) :
              LET at == ResolvedIndex(cfg[c].sym, ret.overrides[i][1]) + 1
              IN  ret.last.witness[at] = original[at]

(* C17, as stated: for override sets with distinct names, applying the first  *)
(* and then the second, starting from one base vector, yields the vector that *)
(* applying both in one call yields; for modifyWitnessArray on an array and   *)
(* for modifyWitness on the witness of a circuit, where one call with both    *)
(* yields the vector of the first call with the overrides of the second.      *)
C17_SequentialEqualsOneCall ==
    /\ ArrayOverridesCompose
    /\ [](\A c \in Instances :
             SecondModifyWitness(c)
             => ret.witness =
                   modifyWitnessArraySym(ret.last.witness, loadSignalToIndexMap(cfg[c].sym),
                                         ret.overrides).witness)

(* C17, amended: for override sets with distinct names, modifyWitnessArray    *)
(* applied with the first and then with the second to one array yields the    *)
(* vector that one call with both yields.  modifyWitness does not accumulate: *)
(* each call applies its overrides to the original witness, so after a second *)
(* modifyWitness every position its own overrides do not name holds the       *)
(* original value.                                                            *)
C17_ArrayOverridesCompose ==
    /\ ArrayOverridesCompose
    /\ [](\A c \in Instances :
             SecondModifyWitness(c)
             => LET original == exportJson(fs[getTemporaryWitnessPath(cfg[c])])
                    at == {ResolvedIndex(cfg[c].sym, ret.overrides[i][1]) + 1 :
                              i \in ResolvedKeys(c)}
                IN  /\ \A pos \in DOMAIN original \ at : ret.witness[pos] = original[pos]
                    /\ exportJson(fs[getModifiedWitnessPath(cfg[c])]) = ret.witness)

(* main.out was overridden in an array whose main.a had been overridden by   *)
(* the call before                                                            *)
C17_Witness ==
    /\ ret.op = "modifyWitnessArray"
    /\ OverrideKeys(ret.overrides) = <<"main.out">>
    /\ ret.argWitness = <<1, 200, 300, 10>>
    /\ heap[ret.ref] = <<1, 150, 300, 10>>

(* C18: override values are not checked against the field prime.  A call     *)
(* whose names all resolve is accepted whatever the values are, and a value   *)
(* greater than or equal to the prime stands unchanged at the resolved index  *)
(* of the returned vector, of the array modified in place and of the          *)
(* persisted modified witness file.                                           *)
C18_OutOfRangeStoredAsIs ==
    \A c \in Instances :
        /\ ret.inst = c
        /\ ret.alone
        /\ ret.hasOverrides
        /\ \/ ret.op = "modifyWitnessArray"
           \/ /\ ret.op = "modifyWitness"
              /\ ret.pre \in {"Original", "Modified"}
              /\ HasArtifact(cfg[c], "sym")
        /\ Unresolved(cfg[c].sym, OverrideKeys(ret.overrides)) = <<>>
        => /\ ret.ok
           /\ \A i \in DOMAIN ret.overrides :
                 LET at == ResolvedIndex(cfg[c].sym, ret.overrides[i][1]) + 1
                     value == ret.overrides[i][2]
                 IN  value >= cfg[c].prime
                     => /\ ret.witness[at] = value
                        /\ ret.op = "modifyWitnessArray" => heap[ret.ref][at] = value
                        /\ ret.op = "modifyWitness"
                           => LET file == fs[getModifiedWitnessPath(cfg[c])]
                              IN  /\ getWitnessPrime(file) = cfg[c].prime
                                  /\ exportJson(file)[at] = value

(* main.a was overridden with 300 over the prime 251 and the modified file   *)
(* holds 300                                                                  *)
C18_Witness ==
    /\ ret.op = "modifyWitness"
    /\ ret.ok /\ ret.alone
    /\ cfg[ret.inst].prime = 251
    /\ \E i \in DOMAIN ret.overrides : ret.overrides[i] = <<"main.a", 300>>
    /\ exportJson(fs[getModifiedWitnessPath(cfg[ret.inst])])[3] = 300

(* The lines of a symbol file that have exactly four fields, in file order *)
FourFields(lines) == SelectSeq(lines, LAMBDA l : Len(l) = 4)

(* The lines of four fields whose witness index is not negative *)
ValidLines(lines) == SelectSeq(FourFields(lines), LAMBDA l : l[2].value >= 0)

(* The symbol table is one the compiler writes: the id, the witness index and *)
(* the component id of every line of four fields are integers                  *)
IsSymbolTable(lines) ==
    \A j \in DOMAIN lines :
        Len(lines[j]) = 4 => \A i \in 1..3 : lines[j][i].isInteger

(* The entry of a line of four fields *)
EntryOf(line) ==
    [id |-> line[1].value, witnessIndex |-> line[2].value,
     componentId |-> line[3].value, signalName |-> line[4]]

C20_UnreadableWitnessFails ==
    /\ [][\A c \in Instances, t \in Tasks :
             /\ pending'[t].call.inst = c
             /\ pending'[t].call.op \in {"getWitnessPrime", "writeWitnessFile"}
             /\ pending[t].pc = "idle"
             => /\ pending'[t].pc = "readBinFile"
                /\ fs' = fs]_vars
    /\ [][\A c \in Instances, t \in Tasks :
             /\ pending[t].call.inst = c
             /\ pending[t].call.op \in {"getWitnessPrime", "writeWitnessFile"}
             /\ pending[t].pc = "readBinFile"
             /\ pending'[t].pc # "readBinFile"
             /\ ~readBinFile(fs, pending[t].call.path).ok
             => /\ ret'.op = pending[t].call.op
                /\ ret'.path = pending[t].call.path
                /\ ~ret'.ok
                /\ ret'.error = readBinFile(fs, ret'.path).error
                /\ ret'.error[1] \in {"ENOENT: no such file or directory",
                                      "Invalid File format", "Version not supported"}
                /\ ret'.wrote = <<>>
                /\ fs' = fs]_vars
    /\ [](\A c \in Instances :
             /\ ret.inst = c
             /\ ret.op \in {"getWitnessPrime", "writeWitnessFile"}
             /\ ret.alone
             /\ ~readBinFile(ret.before, ret.path).ok
             => /\ ~ret.ok
                /\ ret.error = readBinFile(ret.before, ret.path).error
                /\ ret.wrote = <<>>
                /\ fs = ret.before)
    /\ [](\A c \in Instances :
             /\ Returned(c, "modifyWitness")
             /\ ~readBinFile(ret.before, getTemporaryWitnessPath(cfg[c])).ok
             => /\ ~ret.ok
                /\ ret.error = readBinFile(ret.before, getTemporaryWitnessPath(cfg[c])).error
                /\ fs = ret.before)

(* writeWitnessFile was called on a path that holds a file of another type   *)
(* and failed, and the file is still there                                    *)
C20_Witness ==
    /\ ret.op = "writeWitnessFile" /\ ret.alone
    /\ ~ret.ok
    /\ ret.error[1] = "Invalid File format"
    /\ Exists(fs, ret.path)
    /\ fs[ret.path] \in ForeignFiles

(* ceil(bitLength / 64) in integers *)
CeilWords(bitLength) ==
    IF bitLength % 64 = 0 THEN bitLength \div 64 ELSE bitLength \div 64 + 1

(* C21: the element width n8 written to the header is ceil(bitlength / 64) * 8 *)
(* for every prime of bit length 1 or more: a positive multiple of 8 whose     *)
(* bytes hold the bits of the prime.                                           *)
C21_WidthIsCeilOfWords ==
    ret.op = "writeHeader"
    => /\ ret.bitLength >= 1
       /\ ret.n8 = CeilWords(ret.bitLength) * 8
       /\ ret.n8 > 0
       /\ ret.n8 % 8 = 0
       /\ ret.n8 * 8 >= ret.bitLength
       /\ (ret.n8 - 8) * 8 < ret.bitLength

(* The header of a prime of exactly 128 bits was written with 16 bytes *)
C21_Witness ==
    /\ ret.op = "writeHeader"
    /\ ret.bitLength = 128
    /\ ret.n8 = 16

(* The file at a path is the same in two file systems *)
SameFile(f, g, p) == Exists(f, p) = Exists(g, p) /\ (Exists(f, p) => f[p] = g[p])

(* A step of a call on instance c is taken: the call is made, resumed or     *)
(* settled                                                                    *)
StepOn(c) ==
    \/ pending'[c].pc # pending[c].pc
    \/ pending[c].pc = "idle" /\ ret'.inst = c /\ ret' # ret

(* C22: an operation issued on one circuit instance changes neither the      *)
(* contents nor the choice of the current witness file of another instance,   *)
(* whatever the interleaving of the operations of the two: no step of a call  *)
(* on the one creates, changes or removes a witness file of the other.        *)
C22_InstancesDoNotInterfere ==
    [][\A c, d \in TwoInstances :
          /\ c # d
          /\ StepOn(c)
          => /\ SameFile(fs, fs', getTemporaryWitnessPath(cfg[d]))
             /\ SameFile(fs, fs', getModifiedWitnessPath(cfg[d]))
             /\ CurrentWitness(fs', cfg[d]) = CurrentWitness(fs, cfg[d])]_vars

(* C23: after calculateWitness(inputs, witnessOverrides) returns, the witness *)
(* file on disk holds the vector the call returned, the overridden values     *)
(* included.                                                                  *)
C23_OverridesWrittenToWitnessFile ==
    \A c \in Instances :
        /\ Returned(c, "calculateWitness")
        /\ cfg[c].api = "oneshot"
        /\ ret.hasOverrides /\ ret.ok
        => /\ Exists(fs, getTemporaryWitnessPath(cfg[c]))
           /\ exportJson(fs[getTemporaryWitnessPath(cfg[c])]) = ret.witness
           /\ \A i \in DOMAIN ret.overrides :
                 IsResolved(cfg[c].sym, ret.overrides[i][1])
                 => ret.witness[ResolvedIndex(cfg[c].sym, ret.overrides[i][1]) + 1]
                       = ret.overrides[i][2]

(* The artifacts directory holds the artifacts of one successful compile, or *)
(* nothing                                                                    *)
ValidArtifacts(f, k) ==
    LET files == {p \in DOMAIN f : InDir(p, ArtifactDir(k)) /\ f[p].type = "file"}
    IN  \/ files = {}
        \/ /\ \A t \in {"r1cs", "wasm", "zkey", "vkey"} : _getFile(k, t, <<>>).path \in files
           /\ \A p, q \in files : f[p].source = f[q].source

(* The artifacts directory and what is in it are the same in two file systems *)
SameArtifacts(f, g, k) ==
    \A p \in DOMAIN f \cup DOMAIN g :
        p = ArtifactDir(k) \/ InDir(p, ArtifactDir(k)) => SameFile(f, g, p)

(* C24: when compile fails in the circuit compilation, in the zkey generation *)
(* or in the vkey generation, every file of the artifacts directory is as it  *)
(* was before the call, the directory holds the artifacts of the last compile *)
(* that succeeded, and nothing is left of the temporary directory.            *)
C24_FailedCompileKeepsArtifacts ==
    /\ [][\A c \in Instances, t \in Tasks :
             /\ pending'[t].pc # pending[t].pc
             /\ \/ pending[t].call.op = "compile" /\ pending[t].call.inst = c
                \/ pending'[t].call.op = "compile" /\ pending'[t].call.inst = c
             /\ ~(pending'[t].pc = "idle" /\ ret'.ok)
             => /\ SameArtifacts(fs, fs', cfg[c])
                /\ ValidArtifacts(fs', cfg[c])]_vars
    /\ [](\A c \in Instances :
             /\ ret.inst = c
             /\ ret.op = "compile"
             /\ ~ret.ok
             => /\ ret.alone => SameArtifacts(ret.before, fs, cfg[c])
                /\ ValidArtifacts(fs, cfg[c])
                /\ \A p \in DOMAIN fs : p # ret.path /\ ~InDir(p, ret.path))

(* compile of the second revision failed in the zkey generation and the     *)
(* artifacts directory holds the vkey of the first                           *)
C24_Witness ==
    /\ ret.op = "compile" /\ ret.alone
    /\ ~ret.ok
    /\ ret.error = <<"snarkjs.zKey.newZKey">>
    /\ ret.source = 2
    /\ Exists(fs, _getFile(cfg[ret.inst], "vkey", <<>>).path)
    /\ fs[_getFile(cfg[ret.inst], "vkey", <<>>).path].source = 1

(* C25: every modifyWitness starts from the original witness.  After a       *)
(* successful call, whatever calls came before it, the modified file is the   *)
(* original vector with the overrides of this call at their resolved indexes  *)
(* and the original value at every other position.                            *)
C25_OnlyLastOverridesApplied ==
    \A c \in Instances :
        /\ Returned(c, "modifyWitness")
        /\ cfg[c].api = "tracker"
        /\ ret.ok
        => LET original == exportJson(fs[getTemporaryWitnessPath(cfg[c])])
               modified == exportJson(fs[getModifiedWitnessPath(cfg[c])])
               at == [i \in ResolvedKeys(c) |->
                         ResolvedIndex(cfg[c].sym, ret.overrides[i][1]) + 1]
           IN  /\ DOMAIN modified = DOMAIN original
               /\ \A pos \in DOMAIN original :
                     modified[pos] = IF \E i \in DOMAIN at : at[i] = pos
                                     THEN ret.overrides[CHOOSE i \in DOMAIN at : at[i] = pos][2]
                                     ELSE original[pos]

(* A modified file was there before the call, which overrode main.a only,   *)
(* and main.out in the modified file is the product the circuit computed     *)
C25_Witness ==
    /\ ret.op = "modifyWitness"
    /\ ret.ok /\ ret.alone
    /\ ret.pre = "Modified"
    /\ OverrideKeys(ret.overrides) = <<"main.a">>
    /\ exportJson(ret.before[getModifiedWitnessPath(cfg[ret.inst])])[2] = 150
    /\ exportJson(fs[getModifiedWitnessPath(cfg[ret.inst])])[2] =
          exportJson(fs[getTemporaryWitnessPath(cfg[ret.inst])])[2]
    /\ exportJson(fs[getModifiedWitnessPath(cfg[ret.inst])])[3] = 300

(* C26: generateProof(inputs) uses the inputs only when no witness file      *)
(* exists.  When the original or a modified witness file exists, the call     *)
(* changes no file and the proof is that of the existing current witness      *)
(* file; when none exists, the witness of the inputs is calculated and        *)
(* proved.                                                                    *)
C26_InputsUsedOnlyWithoutWitness ==
    \A c \in Instances :
        /\ Returned(c, "generateProof")
        /\ cfg[c].api = "tracker"
        /\ ret.hasInputs
        /\ HasArtifact(cfg[c], "zkey")
        => IF ret.pre # "NoWitness"
           THEN /\ ret.ok
                /\ fs = ret.before
                /\ ret.path = CurrentWitness(ret.before, cfg[c])
                /\ ret.proof =
                      implementerGenerateProof(ret.before[CurrentWitness(ret.before, cfg[c])])
           ELSE HasArtifact(cfg[c], "wasm")
                => /\ ret.ok
                   /\ ret.path = getTemporaryWitnessPath(cfg[c])
                   /\ exportJson(fs[ret.path]) = WitnessOf(ret.inputs, cfg[c].prime)
                   /\ ret.proof.publicSignals = <<WitnessOf(ret.inputs, cfg[c].prime)[2]>>

(* generateProof was given inputs whose product is 600 while the witness of *)
(* 20 and 10 was on disk, and the proof shows 200                            *)
C26_Witness ==
    /\ ret.op = "generateProof"
    /\ cfg[ret.inst].api = "tracker"
    /\ ret.ok /\ ret.alone
    /\ ret.pre = "Original"
    /\ ret.hasInputs
    /\ ret.inputs = <<20, 30>>
    /\ cfg[ret.inst].prime = 65521
    /\ ret.proof.publicSignals = <<200>>

(* C27: once calculateWitness(inputs) has returned, the current witness, the *)
(* one the next proof is made from, is the witness just calculated; no        *)
(* modified file of an earlier calculation takes its place.                   *)
C27_CalculatedWitnessIsCurrent ==
    \A c \in Instances :
        /\ Returned(c, "calculateWitness")
        /\ cfg[c].api = "tracker"
        /\ ret.ok
        => /\ CurrentWitness(fs, cfg[c]) = getTemporaryWitnessPath(cfg[c])
           /\ exportJson(fs[CurrentWitness(fs, cfg[c])]) = ret.witness
           /\ generateProof(fs, cfg[c], NoCall, FALSE, <<>>).ret.proof.publicSignals
                 \in {<<>>, <<ret.witness[2]>>}

(* C28: in every state reached through calculateWitness, modifyWitness,      *)
(* resetWitness, getWitnessFilePath and generateProof, the modified witness   *)
(* file exists only if the original one does: the file state is NoWitness,    *)
(* Original or Modified.                                                      *)
C28_ModifiedOnlyWithOriginal ==
    \A c \in Instances :
        cfg[c].api = "tracker"
        => /\ Exists(fs, getModifiedWitnessPath(cfg[c]))
              => Exists(fs, getTemporaryWitnessPath(cfg[c]))
           /\ WitnessState(fs, cfg[c]) \in {"NoWitness", "Original", "Modified"}
           /\ ret.pre \in {"NoWitness", "Original", "Modified"}

(* resetWitness has removed a modified file and the original is there *)
C28_Witness ==
    /\ ret.op = "resetWitness"
    /\ cfg[ret.inst].api = "tracker"
    /\ ret.pre = "Modified"
    /\ WitnessState(fs, cfg[ret.inst]) = "Original"

(* C29: when generateProof(inputs, witnessOverrides) fails inside its try    *)
(* block, the caller receives the error of the step that failed, also when    *)
(* the temporary witness file does not exist at cleanup; the removal of the   *)
(* file never puts an error of its own in its place.                          *)
C29_CleanupKeepsTheError ==
    \A c \in Instances :
        /\ Returned(c, "generateProof")
        /\ cfg[c].api = "oneshot"
        /\ HasArtifact(cfg[c], "zkey")
        /\ ~ret.ok
        => LET step == calculateWitnessOverrides(ret.before, cfg[c], NoCall, ret.inputs,
                                                 ret.hasOverrides, ret.overrides).ret
           IN  IF ~step.ok
               THEN ret.error = step.error
               ELSE ret.error[1] # "ENOENT: no such file or directory"

(* C30: modifyWitness called when no original witness file exists fails     *)
(* with the error of the read of that file and creates no modified witness    *)
(* file: the state is NoWitness after the call as before it.                  *)
C30_OverridesWithoutWitnessFail ==
    \A c \in Instances :
        /\ Returned(c, "modifyWitness")
        /\ cfg[c].api = "tracker"
        /\ ret.pre = "NoWitness"
        => /\ ~ret.ok
           /\ ret.error = <<"ENOENT: no such file or directory">>
                             \o getTemporaryWitnessPath(cfg[c])
           /\ ret.witness = <<>>
           /\ ret.wrote = <<>>
           /\ ~Exists(fs, getModifiedWitnessPath(cfg[c]))
           /\ WitnessState(fs, cfg[c]) = "NoWitness"

(* modifyWitness with an override of main.out failed on a circuit that has  *)
(* its symbol file and no witness                                             *)
C30_Witness ==
    /\ ret.op = "modifyWitness"
    /\ cfg[ret.inst].api = "tracker"
    /\ ret.alone
    /\ ret.pre = "NoWitness"
    /\ HasArtifact(cfg[ret.inst], "sym")
    /\ OverrideKeys(ret.overrides) = <<"main.out">>
    /\ ~ret.ok
    /\ WitnessState(fs, cfg[ret.inst]) = "NoWitness"

---------------------------------------------------------------------------
(* Outcomes of calls that overlap on one instance: its caller does not await *)
(* each call before it makes the next                                         *)

(* Promise.all of two calculations: the one given a = 20, b = 10 returns the *)
(* vector of the other, which closed the witness file last                   *)
Overlap_CalculationReturnsOtherVector ==
    /\ ret.op = "calculateWitness"
    /\ ret.ok
    /\ ret.inputs = <<20, 10>>
    /\ ret.witness = <<1, 600, 20, 30>>

(* modifyWitness reads the original file while a calculation has it open,    *)
(* empty                                                                      *)
Overlap_ModifyReadsEmptyOriginal ==
    /\ ret.op = "modifyWitness"
    /\ ~ret.ok
    /\ ret.error = <<"Reading out of bounds">>

(* resetWitness has returned and a modifyWitness that was in flight creates  *)
(* the modified file after it                                                 *)
Overlap_ModifiedFileAfterReset ==
    \E c \in Instances :
        /\ ret.op = "resetWitness"
        /\ ret.inst = c
        /\ Exists(fs, getModifiedWitnessPath(cfg[c]))

(* resetWitness removed the modified file that a modifyWitness had created   *)
(* and not closed: modifyWitness returns the vector and leaves no file       *)
Overlap_ModifiedFileLost ==
    \E c \in Instances :
        /\ ret.op = "modifyWitness"
        /\ ret.inst = c
        /\ ret.ok
        /\ ~Exists(fs, getModifiedWitnessPath(cfg[c]))

(* generateProof chose the modified file and reads it while a later          *)
(* modifyWitness has it open, empty                                           *)
Overlap_ProofReadsEmptyFile ==
    /\ ret.op = "generateProof"
    /\ ~ret.ok
    /\ ret.error = <<"Reading out of bounds">>

(* generateProof chose the modified file, resetWitness removed it, and the   *)
(* proving backend finds no file                                              *)
Overlap_ProofOfRemovedFile ==
    \E c \in Instances :
        /\ ret.op = "generateProof"
        /\ ret.inst = c
        /\ cfg[c].api = "tracker"
        /\ ~ret.ok
        /\ ret.error = <<"ENOENT: no such file or directory">> \o getModifiedWitnessPath(cfg[c])

(* Two getWitnessFilePath calls found no witness file and both calculated *)
Overlap_BothCalculate ==
    \E c \in Instances :
        /\ cfg[c].api = "tracker"
        /\ \A t \in Tasks :
              /\ pending[t].call.op = "getWitnessFilePath"
              /\ pending[t].pc = "wtns.calculate:close"

(* Two calculateWitness(inputs, witnessOverrides) of the class without a     *)
(* modified file: the one given a = 20, b = 10 returns the vector of the     *)
(* other                                                                      *)
Overlap_OverridesReturnOtherVector ==
    \E c \in Instances :
        /\ ret.op = "calculateWitness"
        /\ ret.inst = c
        /\ cfg[c].api = "oneshot"
        /\ ret.ok /\ ~ret.hasOverrides
        /\ ret.inputs = <<20, 10>>
        /\ ret.witness = <<1, 600, 20, 30>>

=============================================================================
